---- MODULE Spec2Model ----
(***************************************************************************)
(* Model of the job-description analyzer (src/src/analyzers/nlp_analyzer.py *)
(* and src/src/core/models.py) and of the web service that runs it          *)
(* (src/src/api/server.py, src/src/api/tasks.py).  Texts are strings; the   *)
(* regular expressions of the source are evaluated character by character.  *)
(*                                                                          *)
(* TLA+ strings are ASCII: the en dash (U+2013) of the source's patterns is *)
(* written "~" and the bullet (U+2022) is written "@"; no text of the model *)
(* uses "~" or "@" for anything else.                                       *)
(***************************************************************************)
EXTENDS Integers, Sequences, FiniteSets, TLC

VARIABLES
    text,           \* the text argument of the extraction function under call
    salary_range,   \* the salary_range argument of the function under call
    config,         \* the stored value of analysis.min_job_descriptions
    nlp,            \* self.nlp is set: the spaCy model was loaded
    hash_seed,      \* the hash seed of the process
    raw,            \* the input the last JobDescription was constructed from
    descriptions,   \* the JobDescription objects the caller holds
    calls,          \* how many times analyze_job_description was called
    ret,            \* the outcome of the last call
    pc,             \* where the caller is: "ready", "returned", ...
    job_storage,    \* the job_storage dictionary of the web service
    tasks,          \* the background tasks of the web service, by request id
    response        \* the last response of the web service

vars ==
    <<text, salary_range, config, nlp, hash_seed, raw, descriptions, calls, ret, pc,
      job_storage, tasks, response>>

analyzer_vars == <<config, nlp, hash_seed, raw, descriptions, calls>>

server_vars == <<job_storage, tasks, response>>

\* The web service is not running: the state of the analyzer's harnesses.
ServerIdle ==
    /\ job_storage = <<>>
    /\ tasks = <<>>
    /\ response = [endpoint |-> "none"]

\* Python's None, for an Optional[str].
None == "<None>"
\* Python's None, for an Optional[int]: the integers of the program are naturals.
NoneInt == -1
\* The value of ret before the call.
NoReturn == [k \in {} |-> 0]

(***************************************************************************)
(* Strings and characters.                                                  *)
(***************************************************************************)
EnDash == "~"
Bullet == "@"

Char(s, i) == SubSeq(s, i, i)

Digits == "0123456789"
UpperCase == "ABCDEFGHIJKLMNOPQRSTUVWXYZ"
LowerCase == "abcdefghijklmnopqrstuvwxyz"

InStr(c, alphabet) == \E k \in 1..Len(alphabet) : Char(alphabet, k) = c

\* \d
IsDigit(c) == InStr(c, Digits)
\* \w
IsWordChar(c) == InStr(c, Digits) \/ InStr(c, LowerCase) \/ InStr(c, UpperCase) \/ c = "_"
\* \s
IsSpace(c) == c \in {" ", "\t", "\n", "\r", "\f"}

\* str.lower() of one character.
LowerChar(c) ==
    IF InStr(c, UpperCase)
    THEN Char(LowerCase, CHOOSE k \in 1..Len(UpperCase) : Char(UpperCase, k) = c)
    ELSE c

\* str.lower()
RECURSIVE lower(_)
lower(s) ==
    IF Len(s) = 0 THEN ""
    ELSE IF Len(s) = 1 THEN LowerChar(s)
    ELSE lower(SubSeq(s, 1, Len(s) \div 2)) \o lower(SubSeq(s, (Len(s) \div 2) + 1, Len(s)))

\* int() of a string of decimal digits.
RECURSIVE int(_)
int(s) ==
    IF Len(s) = 1
    THEN (CHOOSE d \in 0..9 : Char(Digits, d + 1) = s)
    ELSE 10 * int(SubSeq(s, 1, Len(s) - 1)) + int(Char(s, Len(s)))

\* The literal lit occurs in s at position i.
StartsAt(s, i, lit) ==
    /\ i >= 1
    /\ i + Len(lit) - 1 <= Len(s)
    /\ SubSeq(s, i, i + Len(lit) - 1) = lit

\* re.search of a literal.
Contains(s, lit) == \E i \in 1..Len(s) : StartsAt(s, i, lit)

WordCharAt(s, i) == i \in 1..Len(s) /\ IsWordChar(Char(s, i))

\* \b between the characters at p and p + 1 (p = 0: before the text).
Boundary(s, p) == WordCharAt(s, p) # WordCharAt(s, p + 1)

\* re.search of \bword\b.
SearchWord(s, word) ==
    \E i \in 1..Len(s) :
        /\ StartsAt(s, i, word)
        /\ Boundary(s, i - 1)
        /\ Boundary(s, i + Len(word) - 1)

\* The position after the longest run of digits (\d*) starting at i.
RECURSIVE DigitsEnd(_, _)
DigitsEnd(s, i) ==
    IF i <= Len(s) /\ IsDigit(Char(s, i)) THEN DigitsEnd(s, i + 1) ELSE i

\* The position after the longest run of whitespace (\s*) starting at i.
RECURSIVE SpacesEnd(_, _)
SpacesEnd(s, i) ==
    IF i <= Len(s) /\ IsSpace(Char(s, i)) THEN SpacesEnd(s, i + 1) ELSE i

\* The last position of the run of word characters that holds position i.
RECURSIVE WordEndOf(_, _)
WordEndOf(s, i) == IF WordCharAt(s, i + 1) THEN WordEndOf(s, i + 1) ELSE i

\* The position after an optional literal (lit?) at i.
OptEnd(s, i, lit) == IF StartsAt(s, i, lit) THEN i + Len(lit) ELSE i

SetMin(S) == CHOOSE m \in S : \A x \in S : m <= x

(***************************************************************************)
(* NLPAnalyzer._extract_years_experience                                    *)
(***************************************************************************)
\* (?:to|\-|en dash): the position after the separator at i, 0 if none.
RangeSepEnd(s, i) ==
    IF StartsAt(s, i, "to") THEN i + 2
    ELSE IF StartsAt(s, i, "-") \/ StartsAt(s, i, EnDash) THEN i + 1
    ELSE 0

\* (\d+)\+?\s*(?:to|\-|en dash)\s*(\d+)?\s*years?  matches at i; sl is the
\* lower-cased text (re.IGNORECASE).
RangeYearsAt(sl, i) ==
    /\ i <= Len(sl) /\ IsDigit(Char(sl, i))
    /\ LET sep == RangeSepEnd(sl, SpacesEnd(sl, OptEnd(sl, DigitsEnd(sl, i), "+")))
       IN  /\ sep # 0
           /\ StartsAt(sl, SpacesEnd(sl, DigitsEnd(sl, SpacesEnd(sl, sep))), "year")

\* (\d+)\+?\s*years?  matches at i; sl is the lower-cased text (re.IGNORECASE).
PlainYearsAt(sl, i) ==
    /\ i <= Len(sl) /\ IsDigit(Char(sl, i))
    /\ StartsAt(sl, SpacesEnd(sl, OptEnd(sl, DigitsEnd(sl, i), "+")), "year")

\* match.group(1) of the leftmost match among the positions in starts.
YearsGroup1(s, starts) ==
    LET i == SetMin(starts) IN SubSeq(s, i, DigitsEnd(s, i) - 1)

_extract_years_experience(s) ==
    LET sl == lower(s)
        ranged == {i \in 1..Len(s) : RangeYearsAt(sl, i)}
        plain  == {i \in 1..Len(s) : PlainYearsAt(sl, i)}
    IN  IF ranged # {} THEN int(YearsGroup1(s, ranged))
        ELSE IF plain # {} THEN int(YearsGroup1(s, plain))
        ELSE NoneInt

(***************************************************************************)
(* NLPAnalyzer._extract_experience_level                                    *)
(***************************************************************************)
\* re.search(r'\bsr\.?\b', s)
SearchSr(s) ==
    \E i \in 1..Len(s) :
        /\ StartsAt(s, i, "sr")
        /\ Boundary(s, i - 1)
        /\ \/ Boundary(s, i + 1)
           \/ StartsAt(s, i + 2, ".") /\ Boundary(s, i + 2)

\* The level for a years value that passed the "if years:" test.
LevelOfYears(years) ==
    IF years >= 10 THEN "Lead/Principal"
    ELSE IF years >= 6 THEN "Senior"
    ELSE IF years >= 3 THEN "Mid-Level"
    ELSE "Entry-Level"

\* Python's truth value of an Optional[int].
Truthy(v) == v # NoneInt /\ v # 0

\* A variant that consults the years before the title terms.
_extract_experience_level_years_first(s) ==
    LET text_lower == lower(s)
        years == _extract_years_experience(s)
    IN  IF Truthy(years) THEN LevelOfYears(years)
        ELSE IF SearchWord(text_lower, "lead") \/ SearchWord(text_lower, "principal")
                \/ SearchWord(text_lower, "staff")
        THEN "Lead/Principal"
        ELSE IF SearchWord(text_lower, "senior") \/ SearchSr(text_lower)
        THEN "Senior"
        ELSE IF SearchWord(text_lower, "entry") \/ SearchWord(text_lower, "junior")
                \/ SearchWord(text_lower, "associate")
        THEN "Entry-Level"
        ELSE "Mid-Level"

_extract_experience_level(s) ==
    LET text_lower == lower(s)
        years == _extract_years_experience(s)
    IN  IF SearchWord(text_lower, "lead") \/ SearchWord(text_lower, "principal")
           \/ SearchWord(text_lower, "staff")
        THEN "Lead/Principal"
        ELSE IF SearchWord(text_lower, "senior") \/ SearchSr(text_lower)
        THEN "Senior"
        ELSE IF SearchWord(text_lower, "entry") \/ SearchWord(text_lower, "junior")
                \/ SearchWord(text_lower, "associate")
        THEN "Entry-Level"
        ELSE IF Truthy(years) THEN LevelOfYears(years)
        ELSE "Mid-Level"

(***************************************************************************)
(* NLPAnalyzer._extract_salary_info and NLPAnalyzer._parse_salary           *)
(***************************************************************************)
\* A dict with no key.
EmptyDict == [k \in {} |-> 0]

\* \d{1,3}: the position after at most three digits starting at i.
Digits3End(s, i) ==
    IF ~(i + 1 <= Len(s) /\ IsDigit(Char(s, i + 1))) THEN i + 1
    ELSE IF ~(i + 2 <= Len(s) /\ IsDigit(Char(s, i + 2))) THEN i + 2
    ELSE i + 3

\* (?:,\d{3})*: the position after the comma groups starting at j.
RECURSIVE GroupsEnd(_, _)
GroupsEnd(s, j) ==
    IF /\ StartsAt(s, j, ",")
       /\ j + 3 <= Len(s)
       /\ \A k \in 1..3 : IsDigit(Char(s, j + k))
    THEN GroupsEnd(s, j + 4)
    ELSE j

\* \d{1,3}(?:,\d{3})*(?:k|K)?: the position after the amount whose first
\* digit is at i.
AmountEnd(s, i) ==
    LET j == GroupsEnd(s, Digits3End(s, i))
    IN  IF StartsAt(s, j, "k") \/ StartsAt(s, j, "K") THEN j + 1 ELSE j

\* \$?(amount): the position of the first digit of a match starting at p, 0 if
\* the pattern does not match at p.
AmountStart(s, p) ==
    IF IsDigit(Char(s, p)) THEN p
    ELSE IF StartsAt(s, p, "$") /\ p + 1 <= Len(s) /\ IsDigit(Char(s, p + 1)) THEN p + 1
    ELSE 0

\* re.findall(r'\$?(\d{1,3}(?:,\d{3})*(?:k|K)?)', s), scanning from p.
RECURSIVE FindAmounts(_, _)
FindAmounts(s, p) ==
    IF p > Len(s) THEN <<>>
    ELSE IF AmountStart(s, p) = 0 THEN FindAmounts(s, p + 1)
    ELSE LET b == AmountStart(s, p)
             e == AmountEnd(s, b)
         IN  <<SubSeq(s, b, e - 1)>> \o FindAmounts(s, e)

\* salary_pattern matches at i: the positions [first amount, its end, second
\* amount, its end], or <<>> if it does not.  The search is case-sensitive.
SalaryPatternAt(s, i) ==
    IF ~(StartsAt(s, i, "$") /\ i + 1 <= Len(s) /\ IsDigit(Char(s, i + 1))) THEN <<>>
    ELSE LET e1  == AmountEnd(s, i + 1)
             sep == RangeSepEnd(s, SpacesEnd(s, e1))
             q   == SpacesEnd(s, sep)
             b2  == IF sep = 0 THEN 0 ELSE AmountStart(s, q)
         IN  IF sep = 0 \/ q > Len(s) \/ b2 = 0 THEN <<>>
             ELSE <<i + 1, e1, b2, AmountEnd(s, b2)>>

\* Removes every "," and "$".
RECURSIVE StripCommaDollar(_)
StripCommaDollar(s) ==
    IF s = "" THEN ""
    ELSE (IF Head(s) \in {",", "$"} THEN "" ELSE Head(s)) \o StripCommaDollar(Tail(s))

_parse_salary(salary_str) ==
    LET t == StripCommaDollar(salary_str)
    IN  IF Char(t, Len(t)) \in {"k", "K"}
        THEN int(SubSeq(t, 1, Len(t) - 1)) * 1000
        ELSE int(t)

\* The salary string the parse works on: the field, or "$X - $Y" from the
\* first match of salary_pattern in the text when the field is None or "".
SalaryString(field, s) ==
    LET starts == {i \in 1..Len(s) : SalaryPatternAt(s, i) # <<>>}
        m == SalaryPatternAt(s, SetMin(starts))
    IN  IF field \notin {None, ""} THEN field
        ELSE IF starts # {}
        THEN "$" \o SubSeq(s, m[1], m[2] - 1) \o " - $" \o SubSeq(s, m[3], m[4] - 1)
        ELSE field

_extract_salary_info(field, s) ==
    LET range == SalaryString(field, s)
        amounts == FindAmounts(range, 1)
    IN  IF range \in {None, ""} THEN EmptyDict
        ELSE IF Len(amounts) >= 2
        THEN [min |-> _parse_salary(amounts[1]),
              max |-> _parse_salary(amounts[2]),
              average |-> (_parse_salary(amounts[1]) + _parse_salary(amounts[2])) \div 2,
              range |-> range]
        ELSE [range |-> range]

(***************************************************************************)
(* NLPAnalyzer._extract_remote_policy                                       *)
(***************************************************************************)
\* re.search of  a[- ]b  (opt = FALSE)  or  a[- ]?b  (opt = TRUE).
SearchJoined(s, a, b, opt) ==
    \E i \in 1..Len(s) :
        /\ StartsAt(s, i, a)
        /\ \/ opt /\ StartsAt(s, i + Len(a), b)
           \/ /\ StartsAt(s, i + Len(a), "-") \/ StartsAt(s, i + Len(a), " ")
              /\ StartsAt(s, i + Len(a) + 1, b)

\* re.search(r'100%\s*remote', s)
SearchPercentRemote(s) ==
    \E i \in 1..Len(s) :
        StartsAt(s, i, "100%") /\ StartsAt(s, SpacesEnd(s, i + 4), "remote")

\* A variant that looks for a bare "remote" before "hybrid" and the on-site forms.
_extract_remote_policy_remote_first(s) ==
    IF Contains(s, "fully remote") \/ SearchPercentRemote(s)
       \/ SearchJoined(s, "remote", "first", FALSE)
    THEN "Fully Remote"
    ELSE IF Contains(s, "remote") THEN "Remote Available"
    ELSE IF Contains(s, "hybrid") THEN "Hybrid"
    ELSE IF SearchJoined(s, "on", "site", TRUE) \/ SearchJoined(s, "in", "office", FALSE)
    THEN "On-Site"
    ELSE "Not Specified"

_extract_remote_policy(s) ==
    IF Contains(s, "fully remote") \/ SearchPercentRemote(s)
       \/ SearchJoined(s, "remote", "first", FALSE)
    THEN "Fully Remote"
    ELSE IF Contains(s, "hybrid") THEN "Hybrid"
    ELSE IF SearchJoined(s, "on", "site", TRUE) \/ SearchJoined(s, "in", "office", FALSE)
    THEN "On-Site"
    ELSE IF Contains(s, "remote") THEN "Remote Available"
    ELSE "Not Specified"

(***************************************************************************)
(* NLPAnalyzer._extract_company_info                                        *)
(***************************************************************************)
\* str.upper() of one character.
UpperChar(c) ==
    IF InStr(c, LowerCase)
    THEN Char(UpperCase, CHOOSE k \in 1..Len(LowerCase) : Char(LowerCase, k) = c)
    ELSE c

\* The positions where  series [a-d]  matches.
SeriesStarts(s) ==
    {i \in 1..Len(s) :
        StartsAt(s, i, "series ") /\ i + 7 <= Len(s) /\ InStr(Char(s, i + 7), "abcd")}

\* The positions where  (\d+)\+?\s*(?:person|people|employee)  matches.
SizeStarts(s) ==
    {i \in 1..Len(s) :
        /\ IsDigit(Char(s, i))
        /\ LET q == SpacesEnd(s, OptEnd(s, DigitsEnd(s, i), "+"))
           IN  StartsAt(s, q, "person") \/ StartsAt(s, q, "people")
                  \/ StartsAt(s, q, "employee")}

\* The company stage, None if no stage pattern matches.
CompanyStage(s) ==
    IF Contains(s, "startup") \/ SearchJoined(s, "early", "stage", FALSE) THEN "Startup"
    ELSE IF SeriesStarts(s) # {}
    THEN "Series " \o UpperChar(Char(s, SetMin(SeriesStarts(s)) + 7))
    ELSE IF Contains(s, "enterprise") \/ Contains(s, "fortune") THEN "Enterprise"
    ELSE None

\* The company size, None if the size pattern does not match.
CompanySize(s) ==
    IF SizeStarts(s) = {} THEN None
    ELSE LET i == SetMin(SizeStarts(s))
         IN  SubSeq(s, i, DigitsEnd(s, i) - 1) \o "+ employees"

_extract_company_info(s) ==
    LET stage == CompanyStage(s)
        size == CompanySize(s)
    IN  IF stage # None /\ size # None THEN [stage |-> stage, size |-> size]
        ELSE IF stage # None THEN [stage |-> stage]
        ELSE IF size # None THEN [size |-> size]
        ELSE EmptyDict

(***************************************************************************)
(* NLPAnalyzer._extract_education                                           *)
(***************************************************************************)
\* The position after the longest run of whitespace (\s+) at i, 0 if none.
Spaces1End(s, i) == IF SpacesEnd(s, i) = i THEN 0 ELSE SpacesEnd(s, i)

\* name'?s?\s+degree  matches at i: the position after the match, 0 if none.
DegreeEndAt(s, i, name) ==
    IF ~StartsAt(s, i, name) THEN 0
    ELSE LET q == Spaces1End(s, OptEnd(s, OptEnd(s, i + Len(name), "'"), "s"))
         IN  IF q # 0 /\ StartsAt(s, q, "degree") THEN q + 6 ELSE 0

\* ph\.?d\.?  matches at i: the position after the match, 0 if none.
PhdEndAt(s, i) ==
    IF ~StartsAt(s, i, "ph") THEN 0
    ELSE LET q == OptEnd(s, i + 2, ".")
         IN  IF StartsAt(s, q, "d") THEN OptEnd(s, q + 1, ".") ELSE 0

\* A literal matches at i: the position after the match, 0 if none.
LiteralEndAt(s, i, lit) == IF StartsAt(s, i, lit) THEN i + Len(lit) ELSE 0

\* education_keywords[k] matches at i: the position after the match, 0 if none.
EducationEndAt(s, i, k) ==
    CASE k = 1 -> DegreeEndAt(s, i, "bachelor")
      [] k = 2 -> DegreeEndAt(s, i, "master")
      [] k = 3 -> LiteralEndAt(s, i, "mba")
      [] k = 4 -> PhdEndAt(s, i)
      [] k = 5 -> LiteralEndAt(s, i, "computer science degree")
      [] k = 6 -> LiteralEndAt(s, i, "technical degree")
      [] k = 7 -> LiteralEndAt(s, i, "engineering degree")

NumEducationKeywords == 7

\* The matched substrings of the keywords from k on, in keyword order.
RECURSIVE EducationFrom(_, _)
EducationFrom(s, k) ==
    IF k > NumEducationKeywords THEN <<>>
    ELSE LET starts == {i \in 1..Len(s) : EducationEndAt(s, i, k) # 0}
         IN  (IF starts = {} THEN <<>>
              ELSE <<SubSeq(s, SetMin(starts), EducationEndAt(s, SetMin(starts), k) - 1)>>)
             \o EducationFrom(s, k + 1)

_extract_education(s) == EducationFrom(lower(s), 1)

(***************************************************************************)
(* NLPAnalyzer._extract_sections and NLPAnalyzer._extract_nice_to_have      *)
(***************************************************************************)
\* str.split('\n'), scanning from p.
RECURSIVE SplitLines(_, _)
SplitLines(s, p) ==
    LET ends == {i \in p..Len(s) : Char(s, i) = "\n"}
    IN  IF ends = {} THEN <<SubSeq(s, p, Len(s))>>
        ELSE <<SubSeq(s, p, SetMin(ends) - 1)>> \o SplitLines(s, SetMin(ends) + 1)

\* str.strip()
RECURSIVE strip(_)
strip(s) ==
    IF s = "" THEN ""
    ELSE IF IsSpace(Head(s)) THEN strip(Tail(s))
    ELSE IF IsSpace(Char(s, Len(s))) THEN strip(SubSeq(s, 1, Len(s) - 1))
    ELSE s

\* [-*\d.] and the bullet
IsMarkerChar(c) == c \in {"-", Bullet, "*", "."} \/ IsDigit(c)

\* re.match(r'^[-*\d.]', line), the bullet included
StartsWithMarker(line) == line # "" /\ IsMarkerChar(Head(line))

\* re.match(r'^[-*]\s+', line), the bullet included
IsBulletLine(line) ==
    Len(line) >= 2 /\ Head(line) \in {"-", Bullet, "*"} /\ IsSpace(Char(line, 2))

\* re.match(r'^\d+\.\s+', line)
IsNumberedLine(line) ==
    /\ line # "" /\ IsDigit(Head(line))
    /\ StartsAt(line, DigitsEnd(line, 1), ".")
    /\ DigitsEnd(line, 1) + 1 <= Len(line)
    /\ IsSpace(Char(line, DigitsEnd(line, 1) + 1))

\* The position after the longest run of [-*\d.] (and the bullet) from i.
RECURSIVE MarkersEnd(_, _)
MarkersEnd(s, i) ==
    IF i <= Len(s) /\ IsMarkerChar(Char(s, i)) THEN MarkersEnd(s, i + 1) ELSE i

\* A variant that leaves the line as it is.
StripMarker_keep(line) == line

\* re.sub(r'^[-*\d.]+\s+', '', line), the bullet included
StripMarker(line) ==
    LET m == MarkersEnd(line, 1)
    IN  IF m > 1 /\ SpacesEnd(line, m) > m
        THEN SubSeq(line, SpacesEnd(line, m), Len(line))
        ELSE line

\* any(keyword in line.lower() for keyword in keywords)
HasKeyword(line, keywords) ==
    \E low \in {lower(line)} : \E k \in keywords : Contains(low, k)

MaxItemLen == 200
MinSectionItemLen == 20
MaxSectionItems == 20
MinNiceItemLen == 10
MaxNiceItems == 10

\* items[:n]
Take(items, n) == SubSeq(items, 1, IF Len(items) < n THEN Len(items) ELSE n)

\* The loop of _extract_sections from line i on: the items appended.
RECURSIVE SectionLoop(_, _, _, _)
SectionLoop(lines, keywords, i, in_section) ==
    IF i > Len(lines) THEN <<>>
    ELSE LET line == strip(lines[i])
             leaving ==
                 /\ in_section /\ line # "" /\ ~StartsWithMarker(line)
                 /\ i < Len(lines) /\ ~StartsWithMarker(strip(lines[i + 1]))
             still_in == in_section /\ ~leaving
             clean_line == StripMarker(line)
         IN  IF HasKeyword(line, keywords)
             THEN SectionLoop(lines, keywords, i + 1, TRUE)
             ELSE (IF /\ (still_in /\ IsBulletLine(line)) \/ IsNumberedLine(line)
                      /\ Len(clean_line) > MinSectionItemLen
                   THEN <<Take(clean_line, MaxItemLen)>>
                   ELSE <<>>)
                  \o SectionLoop(lines, keywords, i + 1, still_in)

_extract_sections(s, keywords) ==
    Take(SectionLoop(SplitLines(s, 1), keywords, 1, FALSE), MaxSectionItems)

ResponsibilityKeywords == {"responsibilities", "duties", "what you"}
QualificationKeywords == {"qualifications", "requirements", "you have"}
NiceKeywords == {"nice to have", "preferred", "bonus", "plus", "ideal candidate"}

\* The loop of _extract_nice_to_have from line i on: the items appended.
RECURSIVE NiceLoop(_, _, _)
NiceLoop(lines, i, in_nice_section) ==
    IF i > Len(lines) THEN <<>>
    ELSE LET line == lines[i]
             clean_line == StripMarker(strip(line))
         IN  IF HasKeyword(line, NiceKeywords) THEN NiceLoop(lines, i + 1, TRUE)
             ELSE (IF in_nice_section /\ IsBulletLine(line)
                      /\ Len(clean_line) > MinNiceItemLen
                   THEN <<Take(clean_line, MaxItemLen)>>
                   ELSE <<>>)
                  \o NiceLoop(lines, i + 1, in_nice_section)

_extract_nice_to_have(s) == Take(NiceLoop(SplitLines(s, 1), 1, FALSE), MaxNiceItems)

(***************************************************************************)
(* NLPAnalyzer._build_skill_patterns, _extract_skills_rules,                *)
(* _extract_skills_nlp and _categorize_skills                               *)
(***************************************************************************)
\* self.skill_patterns: the categories in dict order, each with its skill list.
SkillTaxonomy ==
    <<
      [category |-> "product_management", skills |-> <<"product strategy",
          "product vision", "roadmap", "roadmapping", "product lifecycle",
          "product development", "product planning",
          "feature prioritization", "backlog management", "user stories",
          "product metrics", "product analytics", "kpis">>],
      [category |-> "technical", skills |-> <<"sql", "python", "api", "rest",
          "graphql", "json", "xml", "cloud", "aws", "azure", "gcp",
          "kubernetes", "docker", "microservices", "system design",
          "architecture", "technical specifications", "data structures",
          "algorithms", "database", "nosql">>],
      [category |-> "analytics", skills |-> <<"data analysis", "analytics",
          "a/b testing", "experimentation", "metrics", "kpi", "tableau",
          "google analytics", "mixpanel", "amplitude", "sql", "excel",
          "statistics", "data-driven", "quantitative analysis",
          "cohort analysis", "funnel analysis">>],
      [category |-> "design", skills |-> <<"ux", "ui", "user experience",
          "user interface", "wireframing", "prototyping", "figma", "sketch",
          "adobe xd", "invision", "user research", "usability testing",
          "design thinking">>],
      [category |-> "business", skills |-> <<"business strategy",
          "market analysis", "competitive analysis", "go-to-market", "gtm",
          "pricing", "monetization", "revenue", "p&l", "roi",
          "business case", "financial modeling", "market research",
          "customer segmentation">>],
      [category |-> "agile", skills |-> <<"agile", "scrum", "kanban",
          "sprint", "jira", "confluence", "standup", "retrospective",
          "sprint planning", "agile methodologies">>],
      [category |-> "leadership", skills |-> <<"stakeholder management",
          "cross-functional", "leadership", "team management", "mentoring",
          "coaching", "influence", "communication", "presentation",
          "executive communication">>],
      [category |-> "domain", skills |-> <<"saas", "b2b", "b2c",
          "enterprise", "consumer", "mobile", "web", "platform",
          "marketplace", "e-commerce", "fintech", "healthtech", "edtech",
          "marketplace">>]
    >>

Range(f) == {f[k] : k \in DOMAIN f}

AllSkills == UNION {Range(SkillTaxonomy[c].skills) : c \in DOMAIN SkillTaxonomy}

\* re.search(r'\b' + re.escape(skill) + r'\b', s, re.IGNORECASE)
SearchSkill(s, skill) ==
    \E i \in 1..Len(s) :
        /\ StartsAt(s, i, skill)
        /\ Boundary(s, i - 1)
        /\ Boundary(s, i + Len(skill) - 1)

\* The set skills of _extract_skills_rules; s is the lower-cased text.
RuleSkills(s) == {skill \in AllSkills : SearchSkill(s, skill)}

\* The rank of a skill in the iteration order of a set of strings.  The order
\* is that of the strings' hashes, which the process's hash seed fixes: seed 0
\* stands for an order that agrees with the taxonomy's, seed 1 for the
\* opposite order.
FirstIndex(skill) ==
    SetMin(UNION {{100 * c + k : k \in {j \in DOMAIN SkillTaxonomy[c].skills :
                                          SkillTaxonomy[c].skills[j] = skill}} :
                  c \in DOMAIN SkillTaxonomy})

HashSeeds == {0, 1}

\* The skills of a set in the order of the taxonomy.
RECURSIVE TaxonomyOrder(_)
TaxonomyOrder(S) ==
    IF S = {} THEN <<>>
    ELSE LET first == CHOOSE x \in S : \A y \in S : FirstIndex(x) <= FirstIndex(y)
         IN  <<first>> \o TaxonomyOrder(S \ {first})

Reverse(xs) == [k \in 1..Len(xs) |-> xs[Len(xs) + 1 - k]]

\* list(skills) of a set of skills.
ListOfSet(S, seed) ==
    IF seed = 0 THEN TaxonomyOrder(S) ELSE Reverse(TaxonomyOrder(S))

_extract_skills_rules(s, seed) == ListOfSet(RuleSkills(s), seed)

\* spaCy's Language.max_length, scaled to the texts of the model: self.nlp(text)
\* raises ValueError on a longer text.
NlpMaxLength == 300

BackendRaises(s) == Len(s) > NlpMaxLength

BackendErrorMsg == "Text exceeds nlp.max_length"

\* doc.noun_chunks, the backend's own business: here the phrases of the text, its
\* maximal runs of word characters and single spaces.
IsPhraseChar(s, i) ==
    WordCharAt(s, i) \/ (StartsAt(s, i, " ") /\ WordCharAt(s, i - 1) /\ WordCharAt(s, i + 1))

\* The last position of the phrase that starts at i.
PhraseEnd(s, i) == SetMin({j \in i..Len(s) : ~IsPhraseChar(s, j + 1)})

NounChunks(s) ==
    {SubSeq(s, i, PhraseEnd(s, i)) :
        i \in {k \in 1..Len(s) : IsPhraseChar(s, k) /\ ~(k > 1 /\ IsPhraseChar(s, k - 1))}}

\* doc.ents with a label in PRODUCT, ORG, SKILL, the backend's own business:
\* here the capitalised words of the text.
Entities(s) ==
    {SubSeq(s, i, WordEndOf(s, i)) :
        i \in {k \in 1..Len(s) : InStr(Char(s, k), UpperCase) /\ ~WordCharAt(s, k - 1)}}

\* The set skills of _extract_skills_nlp for a text the backend has parsed.
NlpSkills(s) ==
    LET chunk_texts == {strip(lower(chunk)) : chunk \in NounChunks(s)}
        ent_texts   == {lower(ent) : ent \in Entities(s)}
    IN  {skill \in AllSkills :
            \/ \E chunk_text \in chunk_texts :
                  Contains(chunk_text, skill) \/ Contains(skill, chunk_text)
            \/ \E ent_text \in ent_texts : Contains(ent_text, skill)}
        \cup RuleSkills(lower(s))

\* _extract_skills_nlp without its noun chunks and without the rules as backup.
_extract_skills_nlp_entities_only(s, seed) ==
    ListOfSet({skill \in AllSkills :
                  \E ent \in Entities(s) : Contains(lower(ent), skill)}, seed)

_extract_skills_nlp(s, seed) == ListOfSet(NlpSkills(s), seed)

\* The categories of the taxonomy from c on, each with the skills of the list
\* whose first category it is; the categories left empty are dropped.
RECURSIVE CategorizeFrom(_, _)
CategorizeFrom(skills, c) ==
    IF c > Len(SkillTaxonomy) THEN <<>>
    ELSE LET mine == SelectSeq(skills, LAMBDA sk :
                        /\ sk \in Range(SkillTaxonomy[c].skills)
                        /\ \A b \in 1..(c - 1) : sk \notin Range(SkillTaxonomy[b].skills))
         IN  (IF mine = <<>> THEN <<>>
              ELSE <<[category |-> SkillTaxonomy[c].category, skills |-> mine]>>)
             \o CategorizeFrom(skills, c + 1)

\* _categorize_skills without the break: a skill goes under every category
\* that lists it.
_categorize_skills_no_break(skills) ==
    SelectSeq([c \in DOMAIN SkillTaxonomy |->
                  [category |-> SkillTaxonomy[c].category,
                   skills   |-> SelectSeq(skills, LAMBDA sk :
                                   sk \in Range(SkillTaxonomy[c].skills))]],
              LAMBDA entry : entry.skills # <<>>)

_categorize_skills(skills) == CategorizeFrom(skills, 1)

(***************************************************************************)
(* Outcomes of a call: a value returned or an exception raised.  An         *)
(* exception carries its type, its message and, when it was raised while    *)
(* another one was being handled, that one as its context.                  *)
(***************************************************************************)
NoContext == [k \in {} |-> 0]

Return(v) == [ok |-> TRUE, value |-> v]

Raise(type, msg, context) ==
    [ok |-> FALSE, error |-> [type |-> type, msg |-> msg, context |-> context]]

(***************************************************************************)
(* JobDescription (src/src/core/models.py)                                  *)
(***************************************************************************)
MinTitleLen == 1
MaxTitleLen == 200
MinDescriptionLen == 10
MinWords == 50

\* len(v.split()): the number of maximal runs of non-whitespace characters.
WordCount(v) ==
    Cardinality({i \in 1..Len(v) :
                    /\ ~IsSpace(Char(v, i))
                    /\ (i = 1 \/ IsSpace(Char(v, i - 1)))})

\* A variant that also rejects a description of exactly MinWords words.
InvalidFields_over_min_words(r) ==
    {f \in {"title", "company"} : Len(r[f]) < MinTitleLen \/ Len(r[f]) > MaxTitleLen}
    \cup (IF Len(r.description) < MinDescriptionLen \/ WordCount(r.description) <= MinWords
          THEN {"description"} ELSE {})

\* The fields of the input that fail their constraints.
InvalidFields(r) ==
    {f \in {"title", "company"} : Len(r[f]) < MinTitleLen \/ Len(r[f]) > MaxTitleLen}
    \cup (IF Len(r.description) < MinDescriptionLen \/ WordCount(r.description) < MinWords
          THEN {"description"} ELSE {})

\* JobDescription(**r): the model object, or pydantic's ValidationError.
JobDescription(r) ==
    IF InvalidFields(r) = {}
    THEN Return(r)
    ELSE Raise("ValidationError", "validation error for JobDescription", NoContext)

(***************************************************************************)
(* NLPAnalyzer.analyze_job_description                                      *)
(***************************************************************************)
\* The insights dict of a posting whose skills have been extracted.
InsightsOf(job_desc, skills) ==
    LET txt == job_desc.description
        text_lower == lower(txt)
    IN  [title              |-> job_desc.title,
         company            |-> job_desc.company,
         skills             |-> skills,
         skills_by_category |-> _categorize_skills(skills),
         responsibilities   |-> _extract_sections(txt, ResponsibilityKeywords),
         qualifications     |-> _extract_sections(txt, QualificationKeywords),
         experience_level   |-> _extract_experience_level(txt),
         experience_years   |-> _extract_years_experience(txt),
         salary_range       |-> _extract_salary_info(job_desc.salary_range, txt),
         location           |-> IF job_desc.location \in {None, ""}
                                THEN "Not specified" ELSE job_desc.location,
         remote_policy      |-> _extract_remote_policy(text_lower),
         company_info       |-> _extract_company_info(text_lower),
         required_education |-> _extract_education(txt),
         nice_to_have       |-> _extract_nice_to_have(txt)]

\* A variant with a hidden counter: the order in which the set of skills is
\* listed changes from one call to the next.
analyze_job_description_counting(job_desc, has_nlp, seed) ==
    Return(InsightsOf(job_desc,
                      _extract_skills_rules(lower(job_desc.description),
                                            (seed + calls) % 2)))

\* A variant that treats a salary without parsed amounts as an error.
analyze_job_description_strict_salary(job_desc, has_nlp, seed) ==
    IF has_nlp /\ BackendRaises(job_desc.description)
    THEN Raise("AnalysisError", "Failed to analyze job description: " \o BackendErrorMsg,
               [type |-> "ValueError", msg |-> BackendErrorMsg])
    ELSE LET insights == InsightsOf(job_desc,
                            IF has_nlp THEN _extract_skills_nlp(job_desc.description, seed)
                            ELSE _extract_skills_rules(lower(job_desc.description), seed))
         IN  IF "min" \in DOMAIN insights.salary_range
             THEN Return(insights)
             ELSE Raise("AnalysisError", "Failed to analyze job description: 'min'",
                        [type |-> "KeyError", msg |-> "'min'"])

analyze_job_description(job_desc, has_nlp, seed) ==
    IF has_nlp /\ BackendRaises(job_desc.description)
    THEN Raise("AnalysisError", "Failed to analyze job description: " \o BackendErrorMsg,
               [type |-> "ValueError", msg |-> BackendErrorMsg])
    ELSE Return(InsightsOf(job_desc,
                    IF has_nlp THEN _extract_skills_nlp(job_desc.description, seed)
                    ELSE _extract_skills_rules(lower(job_desc.description), seed)))

(***************************************************************************)
(* collections.Counter                                                      *)
(***************************************************************************)
\* The distinct items of a list, in the order of their first occurrence.
Distinct(items) ==
    LET firsts == {i \in DOMAIN items : \A j \in 1..(i - 1) : items[j] # items[i]}
    IN  [k \in 1..Cardinality(firsts) |->
            items[CHOOSE i \in firsts : Cardinality({j \in firsts : j <= i}) = k]]

CountOf(items, x) == Cardinality({i \in DOMAIN items : items[i] = x})

\* Counter(items): the pairs (item, count) in the order of first occurrence.
Counter(items) ==
    LET keys == Distinct(items)
    IN  [k \in DOMAIN keys |-> [key |-> keys[k], count |-> CountOf(items, keys[k])]]

\* sorted(pairs, key=count, reverse=True), which is stable.
RECURSIVE SortByCount(_)
SortByCount(pairs) ==
    IF pairs = <<>> THEN <<>>
    ELSE LET k == SetMin({i \in DOMAIN pairs :
                            \A j \in DOMAIN pairs : pairs[j].count <= pairs[i].count})
         IN  <<pairs[k]>> \o
             SortByCount(SubSeq(pairs, 1, k - 1) \o SubSeq(pairs, k + 1, Len(pairs)))

\* most_common with the items of equal count in the order of last occurrence.
MostCommon_last_first(items, n) == Take(SortByCount(Reverse(Counter(items))), n)

\* Counter(items).most_common(n)
MostCommon(items, n) == Take(SortByCount(Counter(items)), n)

MaxCommonSkills == 50
MaxCommonResponsibilities == 30
MaxCommonQualifications == 30
MaxTopSkills == 10

RECURSIVE Sum(_)
Sum(xs) == IF xs = <<>> THEN 0 ELSE xs[1] + Sum(Tail(xs))

RECURSIVE Flatten(_)
Flatten(lists) == IF lists = <<>> THEN <<>> ELSE lists[1] \o Flatten(Tail(lists))

\* [x[name] for x in xs]
FieldOf(xs, name) == [k \in DOMAIN xs |-> xs[k][name]]

SeqMin(xs) == SetMin(Range(xs))
SeqMax(xs) == CHOOSE m \in Range(xs) : \A x \in Range(xs) : x <= m

\* Python's None, for an Optional[Dict].
NoneDict == [is_none |-> TRUE]

\* The quotient a / b of true division, kept as the pair of its operands.
Quotient(a, b) == [num |-> a, den |-> b]

(***************************************************************************)
(* NLPAnalyzer._aggregate_salary_data, _find_common_patterns and            *)
(* _generate_market_comparison                                              *)
(***************************************************************************)
\* A variant that takes the first range's minimum for the market's minimum.
_aggregate_salary_data_first_min(salary_ranges) ==
    LET HasMin(s) == "min" \in DOMAIN s
        HasMax(s) == "max" \in DOMAIN s
        min_salaries == FieldOf(SelectSeq(salary_ranges, HasMin), "min")
        max_salaries == FieldOf(SelectSeq(salary_ranges, HasMax), "max")
    IN  IF salary_ranges = <<>> \/ min_salaries = <<>> THEN EmptyDict
        ELSE [market_min  |-> min_salaries[1],
              market_max  |-> SeqMax(max_salaries),
              average_min |-> Sum(min_salaries) \div Len(min_salaries),
              average_max |-> IF max_salaries # <<>>
                              THEN Sum(max_salaries) \div Len(max_salaries)
                              ELSE NoneInt,
              sample_size |-> Len(salary_ranges)]

_aggregate_salary_data(salary_ranges) ==
    LET HasMin(s) == "min" \in DOMAIN s
        HasMax(s) == "max" \in DOMAIN s
        min_salaries == FieldOf(SelectSeq(salary_ranges, HasMin), "min")
        max_salaries == FieldOf(SelectSeq(salary_ranges, HasMax), "max")
    IN  IF salary_ranges = <<>> \/ min_salaries = <<>> THEN EmptyDict
        ELSE [market_min  |-> SeqMin(min_salaries),
              market_max  |-> SeqMax(max_salaries),
              average_min |-> Sum(min_salaries) \div Len(min_salaries),
              average_max |-> IF max_salaries # <<>>
                              THEN Sum(max_salaries) \div Len(max_salaries)
                              ELSE NoneInt,
              sample_size |-> Len(salary_ranges)]

\* The patterns dict; len(insights) > 0, the division by it is the caller's.
_find_common_patterns(insights) ==
    LET HasYears(i) == Truthy(i.experience_years)
        HasDegree(i) == i.required_education # <<>>
        top_skills == FieldOf(MostCommon(Flatten(FieldOf(insights, "skills")), MaxTopSkills), "key")
        years == FieldOf(SelectSeq(insights, HasYears), "experience_years")
        frequency == Quotient(Len(SelectSeq(insights, HasDegree)), Len(insights))
    IN  IF years # <<>>
        THEN [top_skills |-> top_skills,
              average_years_required |-> Quotient(Sum(years), Len(years)),
              education_requirement_frequency |-> frequency]
        ELSE [top_skills |-> top_skills,
              education_requirement_frequency |-> frequency]

_generate_market_comparison(insights) ==
    [total_roles_analyzed |-> Len(insights),
     experience_levels    |-> Counter(FieldOf(insights, "experience_level")),
     remote_policies      |-> Counter(FieldOf(insights, "remote_policy")),
     common_requirements  |-> _find_common_patterns(insights)]

(***************************************************************************)
(* Config.get (src/src/core/config.py) for analysis.min_job_descriptions:   *)
(* the stored value, NoneInt when the key is absent or holds None.          *)
(***************************************************************************)
DefaultMinJobDescriptions == 3

ConfigGet(stored, default) == IF stored = NoneInt THEN default ELSE stored

\* str() of a natural number.
RECURSIVE str(_)
str(n) ==
    IF n < 10 THEN Char(Digits, n + 1)
    ELSE str(n \div 10) \o Char(Digits, (n % 10) + 1)

(***************************************************************************)
(* The postings of the model.  A description is its content followed by as  *)
(* many filler words as it takes to reach a number of words.                *)
(***************************************************************************)
Filler == " etc"

RECURSIVE Pad(_, _)
Pad(content, words) ==
    IF WordCount(content) >= words THEN content ELSE Pad(content \o Filler, words)

RichContent ==
    "Senior PM, 6+ years.\nResponsibilities:\n- Lead product strategy and roadmap\nRequirements:\n- Strong SQL and data analysis skills\nFully remote startup. Bachelor's degree."

PaidContent ==
    "Agile team, hybrid or remote. Pays $95,000-$110,000.\nNice to have:\n- Figma and UX prototyping\n50+ people, MBA a plus."

BareContent == "We build things."

JuniorContent == "Junior analyst, 0-1 years, SQL and Agile, on-site."

\* A description longer than the backend accepts.
LongWords == 80

Posting(title, company, location, salary, description) ==
    [title |-> title, company |-> company, location |-> location,
     salary_range |-> salary, description |-> description]

RichPosting ==
    Posting("Senior PM", "TechCorp", "San Francisco", "$120k - $150k", Pad(RichContent, MinWords))
PaidPosting ==
    Posting("Product Owner", "Acme", None, None, Pad(PaidContent, MinWords))
BarePosting ==
    Posting("PM", "Corp", None, "competitive", Pad(BareContent, MinWords))
JuniorPosting ==
    Posting("Analyst", "Initech", "", "$0 - $50k", Pad(JuniorContent, MinWords))
LongPosting ==
    Posting("Manager", "Globex", None, None, Pad(BareContent, LongWords))

JobPool == {RichPosting, PaidPosting, BarePosting, JuniorPosting, LongPosting}

\* Large postings: the phrases of some categories of the taxonomy, then a
\* section of LargeItems responsibilities and one of LargeItems requirements.
LargeItems == 16

RECURSIVE CommaJoin(_)
CommaJoin(words) ==
    IF Len(words) = 0 THEN ""
    ELSE IF Len(words) = 1 THEN words[1]
    ELSE words[1] \o ", " \o CommaJoin(Tail(words))

RECURSIVE BulletLines(_, _, _)
BulletLines(stem, tag, n) ==
    IF n = 0 THEN ""
    ELSE BulletLines(stem, tag, n - 1) \o "\n- " \o stem \o tag \o str(n)

LargeContent(categories, tag) ==
    CommaJoin(Flatten([k \in DOMAIN categories |-> SkillTaxonomy[categories[k]].skills]))
        \o ".\nResponsibilities:" \o BulletLines("Own workstream number ", tag, LargeItems)
        \o "\nRequirements:" \o BulletLines("Proven record in area ", tag, LargeItems)

LargePostingA ==
    Posting("Group PM", "Hooli", "Remote", "$150k - $190k", LargeContent(<<2, 3, 4>>, "A"))
LargePostingB ==
    Posting("Head of Product", "Umbrella", None, None, LargeContent(<<4, 5, 6, 7>>, "B"))

LargePool == {LargePostingA, LargePostingB, RichPosting, PaidPosting}

\* analyze_job_description on the postings of the pools, computed once.
InsightTable ==
    [d \in JobPool \cup LargePool, n \in BOOLEAN, sd \in HashSeeds |->
        analyze_job_description(d, n, sd)]

\* self.analyze_job_description(d) for a posting d of the pool.
Analyze(d, has_nlp, seed) == InsightTable[d, has_nlp, seed]

(***************************************************************************)
(* NLPAnalyzer.analyze_multiple_descriptions                                *)
(***************************************************************************)
\* The body of the try block once every posting has been analyzed.
Aggregate(descs, all_insights) ==
    LET HasTruthyMin(i) == "min" \in DOMAIN i.salary_range /\ i.salary_range.min # 0
        salary_ranges == FieldOf(SelectSeq(all_insights, HasTruthyMin), "salary_range")
    IN  IF Len(all_insights) = 0
        THEN Raise("AnalysisError", "Failed to analyze descriptions: division by zero",
                   [type |-> "ZeroDivisionError", msg |-> "division by zero"])
        ELSE Return(
               [total_analyzed          |-> Len(descs),
                common_skills           |-> MostCommon(Flatten(FieldOf(all_insights, "skills")),
                                                       MaxCommonSkills),
                common_responsibilities |->
                    MostCommon(Flatten(FieldOf(all_insights, "responsibilities")),
                               MaxCommonResponsibilities),
                common_qualifications   |->
                    MostCommon(Flatten(FieldOf(all_insights, "qualifications")),
                               MaxCommonQualifications),
                insights                |-> all_insights,
                salary_insights         |-> IF salary_ranges # <<>>
                                            THEN _aggregate_salary_data(salary_ranges)
                                            ELSE NoneDict,
                market_comparison       |-> _generate_market_comparison(all_insights)])

InsufficientDataMsg(min_required, got) ==
    "At least " \o str(min_required) \o
    " job descriptions required for quality analysis. Got " \o str(got) \o "."

\* The try block from the outcomes of analyze_job_description on the postings:
\* the comprehension of line 182 stops at the first posting that fails, and the
\* except clause wraps its error; otherwise the insights are aggregated.
TryBlock(descs, outcomes) ==
    LET failed == {i \in DOMAIN descs : ~outcomes[i].ok}
    IN  IF failed # {}
        THEN [outcome |-> Raise("AnalysisError",
                                "Failed to analyze descriptions: "
                                    \o outcomes[SetMin(failed)].error.msg,
                                outcomes[SetMin(failed)].error),
              calls   |-> SetMin(failed)]
        ELSE [outcome |-> Aggregate(descs, FieldOf(outcomes, "value")),
              calls   |-> Len(descs)]

\* The outcome of the call and the number of postings analyze_job_description
\* was called on.
AnalyzeAll(descs, has_nlp, seed) ==
    TryBlock(descs, [i \in DOMAIN descs |-> Analyze(descs[i], has_nlp, seed)])

\* A variant that analyzes the postings before it looks at their number.
analyze_multiple_descriptions_check_last(descs, stored, has_nlp, seed) ==
    LET min_required == ConfigGet(stored, DefaultMinJobDescriptions)
        done == AnalyzeAll(descs, has_nlp, seed)
    IN  IF Len(descs) < min_required
        THEN [outcome |-> Raise("InsufficientDataError",
                                InsufficientDataMsg(min_required, Len(descs)), NoContext),
              calls   |-> done.calls]
        ELSE done

\* A variant that leaves out the postings whose analysis fails.
analyze_multiple_descriptions_skip_failed(descs, stored, has_nlp, seed) ==
    LET min_required == ConfigGet(stored, DefaultMinJobDescriptions)
        outcomes == [i \in DOMAIN descs |-> Analyze(descs[i], has_nlp, seed)]
        Succeeded(o) == o.ok
    IN  IF Len(descs) < min_required
        THEN [outcome |-> Raise("InsufficientDataError",
                                InsufficientDataMsg(min_required, Len(descs)), NoContext),
              calls   |-> 0]
        ELSE [outcome |-> Aggregate(descs, FieldOf(SelectSeq(outcomes, Succeeded), "value")),
              calls   |-> Len(descs)]

analyze_multiple_descriptions(descs, stored, has_nlp, seed) ==
    LET min_required == ConfigGet(stored, DefaultMinJobDescriptions)
    IN  IF Len(descs) < min_required
        THEN [outcome |-> Raise("InsufficientDataError",
                                InsufficientDataMsg(min_required, Len(descs)), NoContext),
              calls   |-> 0]
        ELSE AnalyzeAll(descs, has_nlp, seed)

(***************************************************************************)
(* One posting: a JobDescription is constructed from an input and, if the   *)
(* construction succeeds, handed to analyze_job_description.                *)
(***************************************************************************)
RECURSIVE Repeat(_, _)
Repeat(c, n) ==
    IF n = 0 THEN ""
    ELSE IF n = 1 THEN c
    ELSE Repeat(c, n \div 2) \o Repeat(c, n - (n \div 2))

RawTitles == {"", "PM", Repeat("T", MaxTitleLen), Repeat("T", MaxTitleLen + 1)}
RawCompanies == {"", "Acme"}
RawSalaries == {None, "competitive", "$120k - $150k"}
RawDescriptions ==
    {"", "Too short",
     Pad(BareContent, MinWords - 1), Pad(BareContent, MinWords),
     Pad(RichContent, MinWords - 1), Pad(RichContent, MinWords),
     Pad(PaidContent, MinWords + 1), Pad(BareContent, LongWords)}

RawInputs ==
    {Posting(t, c, None, s, d) :
        t \in RawTitles, c \in RawCompanies, s \in RawSalaries, d \in RawDescriptions}

NoRaw == [k \in {} |-> 0]

\* No call of the analyzer is under way: the state of the extraction harnesses.
AnalyzerIdle ==
    /\ config = NoneInt
    /\ nlp = FALSE
    /\ hash_seed = 0
    /\ raw = NoRaw
    /\ descriptions = <<>>
    /\ calls = 0

InitOne ==
    /\ text = ""
    /\ salary_range = None
    /\ config = NoneInt
    /\ nlp \in BOOLEAN
    /\ hash_seed \in HashSeeds
    /\ raw = NoRaw
    /\ descriptions = <<>>
    /\ calls = 0
    /\ ret = NoReturn
    /\ pc = "ready"
    /\ ServerIdle

\* JobDescription(**r)
Construct(r) ==
    /\ pc = "ready"
    /\ raw' = r
    /\ ret' = JobDescription(r)
    /\ IF JobDescription(r).ok
       THEN descriptions' = <<JobDescription(r).value>> /\ pc' = "constructed"
       ELSE descriptions' = <<>> /\ pc' = "rejected"
    /\ UNCHANGED <<text, salary_range, config, nlp, hash_seed, calls>>
    /\ UNCHANGED server_vars

\* How many times analyze_job_description is called on a constructed object.
MaxCalls == 2

\* analyzer.analyze_job_description(job_desc) on the constructed object, for
\* the first time or again
AnalyzeOne ==
    /\ pc \in {"constructed", "returned"}
    /\ calls < MaxCalls
    /\ ret' = analyze_job_description(descriptions[1], nlp, hash_seed)
    /\ calls' = calls + 1
    /\ pc' = "returned"
    /\ UNCHANGED <<text, salary_range, config, nlp, hash_seed, raw, descriptions>>
    /\ UNCHANGED server_vars

NextOne ==
    \/ \E r \in RawInputs : Construct(r)
    \/ AnalyzeOne

SpecOne == InitOne /\ [][NextOne]_vars

(***************************************************************************)
(* A batch: the caller sets the configured minimum, collects postings and   *)
(* calls analyze_multiple_descriptions.                                     *)
(***************************************************************************)
MaxBatch == 4

ConfigValues == {NoneInt, 1, 4}

Init ==
    /\ text = ""
    /\ salary_range = None
    /\ config \in ConfigValues
    /\ nlp \in BOOLEAN
    /\ hash_seed \in HashSeeds
    /\ raw = NoRaw
    /\ descriptions = <<>>
    /\ calls = 0
    /\ ret = NoReturn
    /\ pc = "ready"
    /\ ServerIdle

\* config.set('analysis.min_job_descriptions', v)
ConfigSet(v) ==
    /\ pc = "ready"
    /\ config' = v
    /\ UNCHANGED <<text, salary_range, nlp, hash_seed, raw, descriptions, calls, ret, pc>>
    /\ UNCHANGED server_vars

\* descriptions.append(JobDescription(**r))
AddDescription(r) ==
    /\ pc = "ready"
    /\ Len(descriptions) < MaxBatch
    /\ JobDescription(r).ok
    /\ descriptions' = Append(descriptions, JobDescription(r).value)
    /\ UNCHANGED <<text, salary_range, config, nlp, hash_seed, raw, calls, ret, pc>>
    /\ UNCHANGED server_vars

\* analyzer.analyze_multiple_descriptions(descriptions)
AnalyzeMultiple ==
    /\ pc = "ready"
    /\ \E done \in {analyze_multiple_descriptions(descriptions, config, nlp, hash_seed)} :
          /\ ret' = done.outcome
          /\ calls' = calls + done.calls
    /\ pc' = "returned"
    /\ UNCHANGED <<text, salary_range, config, nlp, hash_seed, raw, descriptions>>
    /\ UNCHANGED server_vars

Next ==
    \/ \E v \in ConfigValues : ConfigSet(v)
    \/ \E r \in JobPool : AddDescription(r)
    \/ AnalyzeMultiple

Spec == Init /\ [][Next]_vars

(***************************************************************************)
(* analyze_multiple_descriptions on batches of large postings.              *)
(***************************************************************************)
MaxLargeBatch == 2

InitLarge ==
    /\ text = ""
    /\ salary_range = None
    /\ config = 1
    /\ nlp \in BOOLEAN
    /\ hash_seed \in HashSeeds
    /\ raw = NoRaw
    /\ descriptions = <<>>
    /\ calls = 0
    /\ ret = NoReturn
    /\ pc = "ready"
    /\ ServerIdle

NextLarge ==
    \/ \E r \in LargePool : Len(descriptions) < MaxLargeBatch /\ AddDescription(r)
    \/ AnalyzeMultiple

SpecLarge == InitLarge /\ [][NextLarge]_vars

(***************************************************************************)
(* Texts: up to MaxFrags fragments joined by single spaces.                 *)
(***************************************************************************)
MaxFrags == 2

RECURSIVE Join(_)
Join(frags) ==
    IF Len(frags) = 0 THEN ""
    ELSE IF Len(frags) = 1 THEN frags[1]
    ELSE frags[1] \o " " \o Join(Tail(frags))

TextsOf(frags) ==
    {Join(fs) : fs \in UNION {[1..n -> frags] : n \in 0..MaxFrags}}

\* Salary strings: up to MaxSalaryFrags fragments written one after the other.
MaxSalaryFrags == 3

RECURSIVE Concat(_)
Concat(frags) == IF Len(frags) = 0 THEN "" ELSE frags[1] \o Concat(Tail(frags))

StringsOf(frags) ==
    {Concat(fs) : fs \in UNION {[1..n -> frags] : n \in 0..MaxSalaryFrags}}

(***************************************************************************)
(* Experience level and years of experience as functions of a text.         *)
(***************************************************************************)
LevelFrags ==
    {"lead", "staff", "Principal", "senior", "Sr.", "sr.pm", "junior",
     "entry-level", "associate", "leadership", "seniority", "pm",
     "10+ years", "12 YEARS", "6 years", "7+years", "3-5 years", "3 years",
     "2 to 4 years", "1 year", "0 years", "5 ~ 7 yrs"}

InitLevel ==
    /\ text \in TextsOf(LevelFrags)
    /\ salary_range = None
    /\ AnalyzerIdle
    /\ ret = NoReturn
    /\ pc = "ready"
    /\ ServerIdle

CallExperienceLevel ==
    /\ pc = "ready"
    /\ pc' = "returned"
    /\ ret' = [level |-> _extract_experience_level(text),
               years |-> _extract_years_experience(text)]
    /\ UNCHANGED <<text, salary_range>>
    /\ UNCHANGED analyzer_vars
    /\ UNCHANGED server_vars

NextLevel == CallExperienceLevel

SpecLevel == InitLevel /\ [][NextLevel]_vars

(***************************************************************************)
(* The salary as a function of the salary_range field and the text.         *)
(***************************************************************************)
SalaryFrags ==
    {"$120k", "$150K", "$95,000", "$110,000", "$0", "$120000", "150000", "80",
     " - ", "-", " to ", " ~ ", "competitive"}

InitSalary ==
    /\ \E s \in StringsOf(SalaryFrags) :
          \/ salary_range = s /\ text \in {"", "pays $90k - $100k"}
          \/ salary_range \in {None, ""} /\ text \in {s, "Salary: " \o s \o " DOE"}
    /\ AnalyzerIdle
    /\ ret = NoReturn
    /\ pc = "ready"
    /\ ServerIdle

CallSalaryInfo ==
    /\ pc = "ready"
    /\ pc' = "returned"
    /\ ret' = [salary |-> _extract_salary_info(salary_range, text)]
    /\ UNCHANGED <<text, salary_range>>
    /\ UNCHANGED analyzer_vars
    /\ UNCHANGED server_vars

NextSalary == CallSalaryInfo

SpecSalary == InitSalary /\ [][NextSalary]_vars

(***************************************************************************)
(* The remote policy of a text, as analyze_job_description computes it: on  *)
(* the lower-cased text.                                                    *)
(***************************************************************************)
RemoteFrags ==
    {"fully remote", "Fully", "remote", "Remote", "first", "remote-first",
     "100%", "100%remote", "hybrid", "Hybrid", "on-site", "onsite", "on",
     "site", "in-office", "in", "office", "remotely", "work"}

InitRemote ==
    /\ text \in TextsOf(RemoteFrags)
    /\ salary_range = None
    /\ AnalyzerIdle
    /\ ret = NoReturn
    /\ pc = "ready"
    /\ ServerIdle

CallRemotePolicy ==
    /\ pc = "ready"
    /\ pc' = "returned"
    /\ ret' = [remote_policy |-> _extract_remote_policy(lower(text))]
    /\ UNCHANGED <<text, salary_range>>
    /\ UNCHANGED analyzer_vars
    /\ UNCHANGED server_vars

NextRemote == CallRemotePolicy

SpecRemote == InitRemote /\ [][NextRemote]_vars

(***************************************************************************)
(* The skills of a text and their categories, as analyze_job_description    *)
(* computes them: _extract_skills_nlp on the text when the backend is       *)
(* loaded, _extract_skills_rules on the lower-cased text when it is not.    *)
(***************************************************************************)
SkillFrags ==
    {"Strong SQL skills", "Sqlite", "rapid", "data", "a/b testing", "kpis",
     "product strategy", "ux/ui"}

InitSkills ==
    /\ text \in TextsOf(SkillFrags)
    /\ salary_range = None
    /\ config = NoneInt
    /\ nlp \in BOOLEAN
    /\ hash_seed \in HashSeeds
    /\ raw = NoRaw
    /\ descriptions = <<>>
    /\ calls = 0
    /\ ret = NoReturn
    /\ pc = "ready"
    /\ ServerIdle

CallExtractSkills ==
    /\ pc = "ready"
    /\ pc' = "returned"
    /\ \E skills \in {IF nlp THEN _extract_skills_nlp(text, hash_seed)
                      ELSE _extract_skills_rules(lower(text), hash_seed)} :
          ret' = [skills |-> skills,
                  skills_by_category |-> _categorize_skills(skills)]
    /\ UNCHANGED <<text, salary_range>>
    /\ UNCHANGED analyzer_vars
    /\ UNCHANGED server_vars

NextSkills == CallExtractSkills

SpecSkills == InitSkills /\ [][NextSkills]_vars

(***************************************************************************)
(* The lists of a text, as analyze_job_description computes them:           *)
(* _extract_sections with the keywords of the responsibilities and of the   *)
(* qualifications, and _extract_nice_to_have. Texts are up to MaxLines      *)
(* fragments joined by newlines, or one fragment followed by a long block   *)
(* of bulleted lines.                                                       *)
(***************************************************************************)
MaxLines == 4

\* Twenty-one bulleted lines, the first longer than MaxItemLen.
BulletBlock ==
    "- " \o Repeat("grow ", 41) \o BulletLines("Own workstream number ", "S", 20)

SectionFrags ==
    {"Responsibilities:", "Requirements:", "Nice to have:",
     "- Lead the product roadmap and strategy", "- Figma skills",
     "1. Define the quarterly objectives", ""}

RECURSIVE JoinLines(_)
JoinLines(frags) ==
    IF Len(frags) = 0 THEN ""
    ELSE IF Len(frags) = 1 THEN frags[1]
    ELSE frags[1] \o "\n" \o JoinLines(Tail(frags))

LinesOf(frags) ==
    {JoinLines(fs) : fs \in UNION {[1..n -> frags] : n \in 0..MaxLines}}

\* A heading with a keyword of each of the three lists.
AllHeading == "Responsibilities, requirements, nice to have:"

SectionTexts ==
    LinesOf(SectionFrags)
        \cup {JoinLines(<<h, BulletBlock>>) : h \in SectionFrags \cup {AllHeading}}

InitSections ==
    /\ text \in SectionTexts
    /\ salary_range = None
    /\ AnalyzerIdle
    /\ ret = NoReturn
    /\ pc = "ready"
    /\ ServerIdle

CallExtractSections ==
    /\ pc = "ready"
    /\ pc' = "returned"
    /\ ret' = [responsibilities |-> _extract_sections(text, ResponsibilityKeywords),
               qualifications |-> _extract_sections(text, QualificationKeywords),
               nice_to_have |-> _extract_nice_to_have(text)]
    /\ UNCHANGED <<text, salary_range>>
    /\ UNCHANGED analyzer_vars
    /\ UNCHANGED server_vars

NextSections == CallExtractSections

SpecSections == InitSections /\ [][NextSections]_vars

(***************************************************************************)
(* The web service (src/src/api/server.py) and its background generation   *)
(* task (src/src/api/tasks.py). The handlers are coroutines without an      *)
(* await: each runs in one step of the event loop. The task runs from one   *)
(* await to the next in one step; between two steps any handler may run.    *)
(***************************************************************************)
\* How many generation requests the service receives.
MaxJobs == 1

\* str(uuid.uuid4()): the request ids, never handed out twice.
RequestIds == 1..MaxJobs

TooShortPosting == Posting("PM", "Corp", None, None, "Too short")

ValidBatch == <<RichPosting, PaidPosting, BarePosting>>
LongBatch == <<RichPosting, PaidPosting, LongPosting>>

\* The bodies of POST /api/v1/analyze: lists of postings as the client sends them.
AnalyzeBodies ==
    {SubSeq(ValidBatch, 1, n) : n \in 0..3}
        \cup {LongBatch, <<TooShortPosting>>, <<RichPosting, PaidPosting, TooShortPosting>>}

\* The external_job_descriptions of the bodies of POST /api/v1/generate.
GenerationBodies == {ValidBatch, SubSeq(ValidBatch, 1, 2)}

\* FastAPI's validation of a list of JobDescription: every element constructs.
BodyIsValid(body) == \A i \in DOMAIN body : JobDescription(body[i]).ok

UnprocessableEntity == 422

\* job_storage with job stored under request_id.
Stored(storage, request_id, job) ==
    [i \in DOMAIN storage \cup {request_id} |-> IF i = request_id THEN job ELSE storage[i]]

\* job_storage after del job_storage[request_id].
Deleted(storage, request_id) ==
    [i \in DOMAIN storage \ {request_id} |-> storage[i]]

\* tasks with the task of request_id at pc.
At(request_id, pc_next) == [tasks EXCEPT ![request_id].pc = pc_next]

\* POST /api/v1/generate
generate_hiring_system(body) ==
    /\ pc = "serving"
    /\ Cardinality(DOMAIN tasks) < MaxJobs
    /\ IF ~BodyIsValid(body) \/ Len(body) < 3
       THEN /\ response' = [endpoint |-> "generate", status_code |-> UnprocessableEntity]
            /\ UNCHANGED <<job_storage, tasks>>
       ELSE \E request_id \in {SetMin(RequestIds \ DOMAIN tasks)} :
              /\ job_storage' = Stored(job_storage, request_id,
                                       [status |-> "processing", progress |-> 0,
                                        result |-> NoneDict, error |-> None])
              /\ tasks' = Stored(tasks, request_id, [pc |-> "scheduled", request |-> body])
              /\ response' = [endpoint |-> "generate", status_code |-> 202,
                              request_id |-> request_id, status |-> "processing"]
    /\ UNCHANGED <<text, salary_range, ret, pc>>
    /\ UNCHANGED analyzer_vars

\* GET /api/v1/status/{request_id}
get_generation_status(request_id) ==
    /\ pc = "serving"
    /\ response' =
          IF request_id \notin DOMAIN job_storage
          THEN [endpoint |-> "status", status_code |-> 404]
          ELSE [endpoint |-> "status", status_code |-> 200, request_id |-> request_id,
                status |-> job_storage[request_id].status,
                progress |-> job_storage[request_id].progress,
                result |-> job_storage[request_id].result,
                error |-> job_storage[request_id].error]
    /\ UNCHANGED <<text, salary_range, ret, pc, job_storage, tasks>>
    /\ UNCHANGED analyzer_vars

\* POST /api/v1/analyze
analyze_job_descriptions(body) ==
    /\ pc = "serving"
    /\ IF ~BodyIsValid(body)
       THEN response' = [endpoint |-> "analyze", sent |-> body,
                         status_code |-> UnprocessableEntity, analyzer_called |-> FALSE]
       ELSE IF Len(body) < 3
       THEN response' = [endpoint |-> "analyze", sent |-> body, status_code |-> 400,
                         detail |-> "At least 3 job descriptions required for analysis",
                         analyzer_called |-> FALSE]
       ELSE \E done \in {analyze_multiple_descriptions(body, config, nlp, hash_seed).outcome} :
              response' =
                 IF done.ok
                 THEN [endpoint |-> "analyze", sent |-> body, status_code |-> 200,
                       total_analyzed |-> done.value.total_analyzed,
                       analyzer_called |-> TRUE]
                 ELSE [endpoint |-> "analyze", sent |-> body, status_code |-> 500,
                       detail |-> done.error.msg, analyzer_called |-> TRUE]
    /\ UNCHANGED <<text, salary_range, ret, pc, job_storage, tasks>>
    /\ UNCHANGED analyzer_vars

\* DELETE /api/v1/jobs/{request_id}
delete_job(request_id) ==
    /\ pc = "serving"
    /\ IF request_id \notin DOMAIN job_storage
       THEN /\ response' = [endpoint |-> "delete", status_code |-> 404]
            /\ UNCHANGED job_storage
       ELSE /\ job_storage' = Deleted(job_storage, request_id)
            /\ response' = [endpoint |-> "delete", status_code |-> 200]
    /\ UNCHANGED <<text, salary_range, ret, pc, tasks>>
    /\ UNCHANGED analyzer_vars

\* sum(1 for j in job_storage.values() if j['status'] == status)
CountStatus(storage, status) ==
    Cardinality({i \in DOMAIN storage : storage[i].status = status})

\* GET /api/v1/stats
get_statistics ==
    /\ pc = "serving"
    /\ response' = [endpoint |-> "stats", status_code |-> 200,
                    total_jobs |-> Cardinality(DOMAIN job_storage),
                    active_jobs |-> CountStatus(job_storage, "processing"),
                    completed_jobs |-> CountStatus(job_storage, "completed"),
                    failed_jobs |-> CountStatus(job_storage, "failed")]
    /\ UNCHANGED <<text, salary_range, ret, pc, job_storage, tasks>>
    /\ UNCHANGED analyzer_vars

\* A variant of the update below that starts the progress over.
FailedJob_reset(job, error) ==
    [job EXCEPT !.status = "failed", !.error = error, !.progress = 0]

\* The update of the two except clauses of the task.
FailedJob(job, error) == [job EXCEPT !.status = "failed", !.error = error]

\* The update at the end of the try block of the task.
CompletedJob(job, request_id) ==
    [job EXCEPT !.status = "completed", !.progress = 100,
                !.result = [request_id |-> request_id, status |-> "completed"]]

\* The awaits of the task in order, and the progress written after each of
\* the first four.
AwaitStages == <<"job_description", "hiring_plan", "interview_rubric", "timeline", "export">>
ProgressAfter == <<50, 70, 85, 95>>

StageIndex(stage) == CHOOSE k \in DOMAIN AwaitStages : AwaitStages[k] = stage

\* generate_hiring_system_async from its start to its first await. A job
\* deleted in the meantime makes the first write raise KeyError, and the
\* except clause that catches it raise KeyError again: the task ends with
\* that exception.
TaskStart(request_id) ==
    /\ pc = "serving"
    /\ request_id \in DOMAIN tasks
    /\ tasks[request_id].pc = "scheduled"
    /\ IF request_id \notin DOMAIN job_storage
       THEN /\ tasks' = At(request_id, "unhandled")
            /\ UNCHANGED job_storage
       ELSE \E done \in {analyze_multiple_descriptions(tasks[request_id].request,
                                                       config, nlp, hash_seed).outcome} :
              \E job \in {[job_storage[request_id] EXCEPT !.progress = 10,
                                                          !.status = "analyzing"]} :
                 IF done.ok
                 THEN /\ job_storage' = Stored(job_storage, request_id,
                                               [job EXCEPT !.progress = 30])
                      /\ tasks' = At(request_id, AwaitStages[1])
                 ELSE /\ job_storage' = Stored(job_storage, request_id,
                                               FailedJob(job, done.error.msg))
                      /\ tasks' = At(request_id, "finished")
    /\ UNCHANGED <<text, salary_range, ret, pc, response>>
    /\ UNCHANGED analyzer_vars

\* The task from the return of one await to the next await or to its end;
\* raised: the awaited generator raised an exception. The exporter collects
\* the exceptions of its exports and raises none.
TaskResume(request_id, raised) ==
    /\ pc = "serving"
    /\ request_id \in DOMAIN tasks
    /\ tasks[request_id].pc \in Range(AwaitStages)
    /\ raised => tasks[request_id].pc # "export"
    /\ IF request_id \notin DOMAIN job_storage
       THEN /\ tasks' = At(request_id, "unhandled")
            /\ UNCHANGED job_storage
       ELSE IF raised
       THEN /\ job_storage' = Stored(job_storage, request_id,
                                     FailedJob(job_storage[request_id], "Internal server error"))
            /\ tasks' = At(request_id, "finished")
       ELSE IF tasks[request_id].pc = "export"
       THEN /\ job_storage' = Stored(job_storage, request_id,
                                     CompletedJob(job_storage[request_id], request_id))
            /\ tasks' = At(request_id, "finished")
       ELSE \E k \in {StageIndex(tasks[request_id].pc)} :
              /\ job_storage' = [job_storage EXCEPT ![request_id].progress = ProgressAfter[k]]
              /\ tasks' = At(request_id, AwaitStages[k + 1])
    /\ UNCHANGED <<text, salary_range, ret, pc, response>>
    /\ UNCHANGED analyzer_vars

InitApi ==
    /\ text = ""
    /\ salary_range = None
    /\ config \in {NoneInt, 4}
    /\ nlp \in BOOLEAN
    /\ hash_seed = 0
    /\ raw = NoRaw
    /\ descriptions = <<>>
    /\ calls = 0
    /\ ret = NoReturn
    /\ pc = "serving"
    /\ ServerIdle

NextApi ==
    \/ \E body \in GenerationBodies : generate_hiring_system(body)
    \/ \E request_id \in RequestIds : get_generation_status(request_id)
    \/ \E body \in AnalyzeBodies : analyze_job_descriptions(body)
    \/ \E request_id \in RequestIds : delete_job(request_id)
    \/ get_statistics
    \/ \E request_id \in RequestIds : TaskStart(request_id)
    \/ \E request_id \in RequestIds, raised \in BOOLEAN : TaskResume(request_id, raised)

SpecApi == InitApi /\ [][NextApi]_vars

(***************************************************************************)
(* Properties of analyze_multiple_descriptions and of JobDescription.       *)
(***************************************************************************)
\* The configured minimum number of postings of a batch.
ConfiguredMinimum == IF config = NoneInt THEN 3 ELSE config

\* The analysis of the posting d fails: the backend is loaded and rejects the text.
PostingFails(d) == nlp /\ Len(d.description) > NlpMaxLength

FailingPostings == {i \in DOMAIN descriptions : PostingFails(descriptions[i])}

\* C1: a call of analyze_multiple_descriptions on a batch with fewer postings
\* than the configured minimum (3 when none is configured) ends with
\* InsufficientDataError, and analyze_job_description has not been called on
\* any posting of the batch.
C1_InsufficientDataNoWork ==
    (pc = "returned" /\ Len(descriptions) < ConfiguredMinimum)
        => /\ ~ret.ok
           /\ ret.error.type = "InsufficientDataError"
           /\ calls = 0

C1_Witness ==
    /\ pc = "returned"
    /\ config = NoneInt
    /\ Len(descriptions) = 2
    /\ nlp
    /\ ~ret.ok
    /\ ret.error.type = "InsufficientDataError"
    /\ ret.error.msg = "At least 3 job descriptions required for quality analysis. Got 2."
    /\ calls = 0

\* C2: a call of analyze_multiple_descriptions on a batch of at least the
\* configured minimum ends with AnalysisError and returns no result if the
\* analysis of one of its postings fails, and otherwise returns a result over
\* all the postings of the batch, one insight per posting and in their order.
C2_AllOrNothing ==
    (pc = "returned" /\ Len(descriptions) >= ConfiguredMinimum)
        => IF FailingPostings # {}
           THEN /\ ~ret.ok
                /\ ret.error.type = "AnalysisError"
                /\ "value" \notin DOMAIN ret
           ELSE /\ ret.ok
                /\ ret.value.total_analyzed = Len(descriptions)
                /\ Len(ret.value.insights) = Len(descriptions)
                /\ \A i \in DOMAIN descriptions :
                      /\ ret.value.insights[i].title = descriptions[i].title
                      /\ ret.value.insights[i].company = descriptions[i].company

C2_Witness ==
    /\ pc = "returned"
    /\ Len(descriptions) = 3
    /\ ConfiguredMinimum = 3
    /\ FailingPostings = {3}
    /\ ~ret.ok
    /\ ret.error.type = "AnalysisError"
    /\ calls = 3

\* C3: the AnalysisError that ends a call of analyze_multiple_descriptions
\* carries the message of the original cause and names the posting whose
\* analysis failed, by its title or by its index in the batch (counted from 0
\* or from 1).
C3_ErrorIdentifiesPosting ==
    (pc = "returned" /\ ~ret.ok /\ ret.error.type = "AnalysisError" /\ FailingPostings # {})
        => LET i == SetMin(FailingPostings)
           IN  /\ Contains(ret.error.msg, BackendErrorMsg)
               /\ \/ Contains(ret.error.msg, descriptions[i].title)
                  \/ Contains(ret.error.msg, str(i))
                  \/ Contains(ret.error.msg, str(i - 1))

\* The input of the last construction has a title and a company of 1 to 200
\* characters each.
NamesValid == Len(raw.title) \in 1..200 /\ Len(raw.company) \in 1..200

\* The last construction was rejected with a validation error, and nothing of
\* it reached the analyzer.
Rejected ==
    /\ pc = "rejected"
    /\ ~ret.ok
    /\ ret.error.type = "ValidationError"
    /\ descriptions = <<>>
    /\ calls = 0

\* C4 as stated: the construction of a JobDescription succeeds if the
\* description has at least 50 whitespace-separated words and fails with a
\* validation error if it has fewer; a rejected posting never reaches the
\* analyzer.
C4_WordCountDecidesConstruction ==
    raw # NoRaw
        => IF WordCount(raw.description) >= 50
           THEN pc \in {"constructed", "returned"} /\ descriptions = <<raw>>
           ELSE Rejected

\* C4: the construction of a JobDescription succeeds if the description has at
\* least 50 whitespace-separated words and the title and the company have 1 to
\* 200 characters each, and fails with a validation error otherwise; a
\* rejected posting never reaches the analyzer.
C4_ConstructionValidity ==
    raw # NoRaw
        => IF WordCount(raw.description) >= 50 /\ NamesValid
           THEN pc \in {"constructed", "returned"} /\ descriptions = <<raw>>
           ELSE Rejected

C4_Witness ==
    /\ raw # NoRaw
    /\ WordCount(raw.description) = 49
    /\ NamesValid
    /\ Rejected

(***************************************************************************)
(* Properties of the extraction functions.                                  *)
(***************************************************************************)
\* The words of a text: its maximal runs of word characters.
Words(s) ==
    {SubSeq(s, i, WordEndOf(s, i)) :
        i \in {k \in 1..Len(s) : WordCharAt(s, k) /\ ~WordCharAt(s, k - 1)}}

\* The text with every digit replaced by the digit d.
RECURSIVE WithDigits(_, _)
WithDigits(s, d) ==
    IF s = "" THEN ""
    ELSE (IF IsDigit(Head(s)) THEN d ELSE Head(s)) \o WithDigits(Tail(s), d)

\* The text with every digit removed.
RECURSIVE WithoutDigits(_)
WithoutDigits(s) ==
    IF s = "" THEN ""
    ELSE (IF IsDigit(Head(s)) THEN "" ELSE Head(s)) \o WithoutDigits(Tail(s))

LeadTerms == {"lead", "principal", "staff"}
SeniorTerms == {"senior", "sr"}
EntryTerms == {"entry", "junior", "associate"}
TitleTerms == LeadTerms \cup SeniorTerms \cup EntryTerms

LevelReturned == pc = "returned" /\ "level" \in DOMAIN ret

\* C5: the experience level follows the priority lead/principal/staff, then
\* senior/sr., then entry/junior/associate; a text that has one of these terms
\* as a word gets the level of its first term class whatever years it states:
\* changing or removing every number of the text leaves the level as it is.
C5_TitleTermsOverrideYears ==
    LevelReturned =>
        LET w == Words(lower(text)) IN
        /\ w \cap LeadTerms # {} => ret.level = "Lead/Principal"
        /\ w \cap LeadTerms = {} /\ w \cap SeniorTerms # {} => ret.level = "Senior"
        /\ w \cap (LeadTerms \cup SeniorTerms) = {} /\ w \cap EntryTerms # {}
              => ret.level = "Entry-Level"
        /\ w \cap TitleTerms # {} =>
              /\ _extract_experience_level(WithoutDigits(text)) = ret.level
              /\ \A d \in {"0", "2", "4", "7", "9"} :
                    _extract_experience_level(WithDigits(text, d)) = ret.level

\* C5 witness: a text with a senior term and ten or more years is "Senior".
C5_Witness ==
    /\ LevelReturned
    /\ "senior" \in Words(lower(text))
    /\ ret.years >= 10
    /\ ret.level = "Senior"

\* C6: without a title term, a found years value N gives Lead/Principal for
\* N >= 10, Senior for 6 <= N < 10, Mid-Level for 3 <= N < 6 and Entry-Level for
\* every N < 3, N = 0 included; Mid-Level is the default only when no years value
\* is found.
C6_YearsThresholds ==
    LevelReturned /\ Words(lower(text)) \cap TitleTerms = {} =>
        /\ ret.years = NoneInt => ret.level = "Mid-Level"
        /\ ret.years >= 10 => ret.level = "Lead/Principal"
        /\ ret.years >= 6 /\ ret.years < 10 => ret.level = "Senior"
        /\ ret.years >= 3 /\ ret.years < 6 => ret.level = "Mid-Level"
        /\ ret.years >= 0 /\ ret.years < 3 => ret.level = "Entry-Level"

\* A number as written: digits with commas between them, and an optional k or K.
RECURSIVE NumberEnd(_, _)
NumberEnd(s, i) ==
    IF i <= Len(s) /\ IsDigit(Char(s, i)) THEN NumberEnd(s, i + 1)
    ELSE IF StartsAt(s, i, ",") /\ i + 1 <= Len(s) /\ IsDigit(Char(s, i + 1))
    THEN NumberEnd(s, i + 1)
    ELSE IF StartsAt(s, i, "k") \/ StartsAt(s, i, "K") THEN i + 1
    ELSE i

\* The numeric tokens of a string, in order.
RECURSIVE NumericTokens(_, _)
NumericTokens(s, p) ==
    IF p > Len(s) THEN <<>>
    ELSE IF ~IsDigit(Char(s, p)) THEN NumericTokens(s, p + 1)
    ELSE <<SubSeq(s, p, NumberEnd(s, p) - 1)>> \o NumericTokens(s, NumberEnd(s, p))

\* The amount a numeric token states: commas stripped, a trailing k as x1000.
RECURSIVE DigitsValue(_)
DigitsValue(tok) ==
    IF tok = "" THEN 0
    ELSE LET c == Char(tok, Len(tok))
             rest == SubSeq(tok, 1, Len(tok) - 1)
         IN  IF c \in {"k", "K"} THEN 1000 * DigitsValue(rest)
             ELSE IF c = "," THEN DigitsValue(rest)
             ELSE 10 * DigitsValue(rest) + int(c)

SalaryReturned == pc = "returned" /\ "salary" \in DOMAIN ret

\* C7: a supplied salary_range field is the salary string; a salary string with
\* at least two numeric tokens gives min = the first token's amount, max = the
\* second token's amount and average = (min + max) div 2; one with fewer than
\* two numeric tokens gives the raw string under "range" and nothing else.
C7_SalaryParsing ==
    SalaryReturned =>
        LET d == ret.salary IN
        /\ salary_range \notin {None, ""} =>
              "range" \in DOMAIN d /\ d.range = salary_range
        /\ "range" \in DOMAIN d =>
              LET toks == NumericTokens(d.range, 1) IN
              IF Len(toks) >= 2
              THEN /\ DOMAIN d = {"min", "max", "average", "range"}
                   /\ d.min = DigitsValue(toks[1])
                   /\ d.max = DigitsValue(toks[2])
                   /\ d.average = (d.min + d.max) \div 2
              ELSE DOMAIN d = {"range"}

\* The phrases of each remote-policy class, in the spellings the patterns
\* accept (a hyphen or a space between the two words; "onsite" in one word).
FullyRemotePhrases ==
    {"fully remote", "100% remote", "100%remote", "remote-first", "remote first"}
HybridPhrases == {"hybrid"}
OnSitePhrases == {"on-site", "on site", "onsite", "in-office", "in office"}
RemotePhrases == {"remote"}

HasPhrase(s, phrases) == \E ph \in phrases : Contains(s, ph)

RemotePolicies ==
    {"Fully Remote", "Hybrid", "On-Site", "Remote Available", "Not Specified"}

RemoteReturned == pc = "returned" /\ "remote_policy" \in DOMAIN ret

\* C10: the remote policy is the first class, in the order fully remote,
\* hybrid, on-site, bare remote, whose phrase occurs in the text, and
\* "Not Specified" when none occurs; it is always one of the five values, and
\* "hybrid" with "remote" but no fully-remote phrase is "Hybrid".
C10_RemotePolicyPriority ==
    RemoteReturned =>
        LET t == lower(text)
            fully  == HasPhrase(t, FullyRemotePhrases)
            hybrid == HasPhrase(t, HybridPhrases)
            onsite == HasPhrase(t, OnSitePhrases)
            remote == HasPhrase(t, RemotePhrases)
        IN  /\ ret.remote_policy \in RemotePolicies
            /\ ret.remote_policy =
                  (IF fully THEN "Fully Remote"
                   ELSE IF hybrid THEN "Hybrid"
                   ELSE IF onsite THEN "On-Site"
                   ELSE IF remote THEN "Remote Available"
                   ELSE "Not Specified")

\* C10 witness: "hybrid" and "remote" together, no fully-remote phrase: "Hybrid".
C10_Witness ==
    /\ RemoteReturned
    /\ HasPhrase(lower(text), HybridPhrases)
    /\ HasPhrase(lower(text), RemotePhrases)
    /\ ~HasPhrase(lower(text), FullyRemotePhrases)
    /\ ret.remote_policy = "Hybrid"

NoDigits(s) == \A i \in 1..Len(s) : ~IsDigit(Char(s, i))

\* No line of the text starts, once stripped, with a list marker.
NoMarkedLine(s) ==
    \A k \in DOMAIN SplitLines(s, 1) : ~StartsWithMarker(strip(SplitLines(s, 1)[k]))

\* C8: a call of analyze_job_description raises only when the backend rejects
\* the text.  Otherwise it returns the insight, in which a salary string
\* without amounts is kept as the range alone, a posting without salary has an
\* empty salary, and a text without any match has no years, the remote policy
\* "Not Specified", no education, an empty company info and empty sections.
C8_SoftFailuresNeverRaise ==
    (pc = "returned" /\ raw # NoRaw /\ ~PostingFails(raw))
        => /\ ret.ok
           /\ LET v  == ret.value
                  tl == lower(raw.description)
              IN  /\ (raw.salary_range \notin {None, ""} /\ NoDigits(raw.salary_range))
                        => v.salary_range = [range |-> raw.salary_range]
                  /\ (raw.salary_range \in {None, ""} /\ ~Contains(raw.description, "$"))
                        => v.salary_range = EmptyDict
                  /\ ~Contains(tl, "year") => v.experience_years = NoneInt
                  /\ ~HasPhrase(tl, {"remote", "hybrid", "site", "office"})
                        => v.remote_policy = "Not Specified"
                  /\ ~HasPhrase(tl, {"degree", "mba", "ph"}) => v.required_education = <<>>
                  /\ ~HasPhrase(tl, {"startup", "stage", "series", "enterprise", "fortune",
                                     "person", "people", "employee"})
                        => v.company_info = EmptyDict
                  /\ NoMarkedLine(raw.description)
                        => /\ v.responsibilities = <<>>
                           /\ v.qualifications = <<>>
                           /\ v.nice_to_have = <<>>

C8_Witness ==
    /\ pc = "returned"
    /\ raw # NoRaw
    /\ raw.salary_range = "competitive"
    /\ raw.description = Pad(BareContent, MinWords)
    /\ nlp
    /\ ret.ok
    /\ ret.value.salary_range = [range |-> "competitive"]
    /\ ret.value.experience_years = NoneInt
    /\ ret.value.remote_policy = "Not Specified"
    /\ ret.value.required_education = <<>>
    /\ ret.value.company_info = EmptyDict
    /\ ret.value.responsibilities = <<>>

\* The postings of the batch whose insight has a fully parsed salary.
FullyParsed ==
    {i \in DOMAIN ret.value.insights :
        {"min", "max"} \subseteq DOMAIN ret.value.insights[i].salary_range}

\* C9: in the result of analyze_multiple_descriptions, salary_insights is None
\* if and only if no insight has a salary with both min and max; otherwise its
\* sample_size is the number of such insights, its market_min the smallest of
\* their min and its market_max the largest of their max.
C9_SalaryInsightsOverFullyParsed ==
    (pc = "returned" /\ ret.ok)
        => LET si == ret.value.salary_insights
               mins == {ret.value.insights[i].salary_range.min : i \in FullyParsed}
               maxs == {ret.value.insights[i].salary_range.max : i \in FullyParsed}
           IN  /\ (si = NoneDict) <=> (FullyParsed = {})
               /\ FullyParsed # {}
                     => /\ si.sample_size = Cardinality(FullyParsed)
                        /\ \A m \in mins : si.market_min <= m
                        /\ si.market_min \in mins
                        /\ \A m \in maxs : si.market_max >= m
                        /\ si.market_max \in maxs

(***************************************************************************)
(* Properties of the skills of a posting.                                   *)
(***************************************************************************)
\* The phrase occurs in the text in any case, with no word character right
\* before it and none right after it.
WholePhraseIn(s, phrase) ==
    \E sl \in {lower(s)} : \E i \in 1..Len(sl) :
        /\ StartsAt(sl, i, phrase)
        /\ ~WordCharAt(sl, i - 1)
        /\ ~WordCharAt(sl, i + Len(phrase))

\* C11: skill detection is case-insensitive and boundary-safe: every reported
\* skill occurs in the text as a whole phrase between word boundaries, in any
\* case ('sql' is not reported for 'Sqlite', 'api' is not reported for
\* 'rapid'), a text with 'Strong SQL skills' reports 'sql', and the list of
\* skills has no duplicates.
C11_SkillsBoundarySafe ==
    pc = "returned" =>
        /\ \A k \in DOMAIN ret.skills : WholePhraseIn(text, ret.skills[k])
        /\ Contains(text, "Strong SQL skills") => "sql" \in Range(ret.skills)
        /\ Cardinality(Range(ret.skills)) = Len(ret.skills)

\* The skills of the deterministic path: the phrases of the taxonomy that occur
\* in the text as whole phrases.
DeterministicSkills(s) ==
    UNION {{skill \in AllSkills : WholePhraseIn(sl, skill)} : sl \in {lower(s)}}

Occurrences(skill) ==
    {ck \in (DOMAIN SkillTaxonomy) \X (1..Cardinality(AllSkills)) :
        /\ ck[2] \in DOMAIN SkillTaxonomy[ck[1]].skills
        /\ SkillTaxonomy[ck[1]].skills[ck[2]] = skill}

\* C13: in the default taxonomy of an analyzer, before and after a call, every
\* phrase belongs to exactly one category: no phrase is listed under two
\* categories and none is listed twice in one category's list.
C13_TaxonomyPhrasesUnique ==
    pc \in {"ready", "returned"} =>
        \A skill \in AllSkills : Cardinality(Occurrences(skill)) = 1

\* The first category of the taxonomy, in its order, that lists the skill.
FirstCategory(skill) ==
    SkillTaxonomy[SetMin({ck[1] : ck \in Occurrences(skill)})].category

\* C14: skills_by_category partitions the detected skills: every detected
\* skill is listed under exactly one category, the first category of the
\* taxonomy that contains it, no category is listed with an empty list or
\* twice, and no skill is listed that was not detected.
C14_SkillsByCategoryPartition ==
    pc = "returned" =>
        LET by == ret.skills_by_category
        IN  /\ \A skill \in Range(ret.skills) :
                  \E e \in DOMAIN by :
                      /\ by[e].category = FirstCategory(skill)
                      /\ skill \in Range(by[e].skills)
                      /\ \A f \in DOMAIN by \ {e} : skill \notin Range(by[f].skills)
            /\ \A e \in DOMAIN by :
                  /\ by[e].skills # <<>>
                  /\ Cardinality(Range(by[e].skills)) = Len(by[e].skills)
                  /\ Range(by[e].skills) \subseteq Range(ret.skills)
                  /\ \A f \in DOMAIN by \ {e} : by[f].category # by[e].category

C14_Witness ==
    /\ pc = "returned"
    /\ "sql" \in Range(ret.skills)
    /\ Len(ret.skills_by_category) >= 2
    /\ \E e \in DOMAIN ret.skills_by_category :
          /\ ret.skills_by_category[e].category = "technical"
          /\ "sql" \in Range(ret.skills_by_category[e].skills)

(***************************************************************************)
(* Properties of the aggregate of a batch.                                  *)
(***************************************************************************)
\* The per-document lists of a field of the insights, one after the other.
Flattened(name) == Flatten(FieldOf(ret.value.insights, name))

Occurs(list, x) == Cardinality({i \in DOMAIN list : list[i] = x})

FirstSeen(list, x) == SetMin({i \in DOMAIN list : list[i] = x})

\* The table ranks the items of the list: each entry maps an item to the number
\* of its occurrences, an entry comes before another when its count is greater
\* or, the counts being equal, when its item was met first, and the table keeps
\* the first cap items of that ranking.
IsFrequencyTable(table, list, cap) ==
    \E occ \in {[x \in Range(list) |-> Occurs(list, x)]} :
    \E seen \in {[x \in Range(list) |-> FirstSeen(list, x)]} :
    \E keys \in {{table[e].key : e \in DOMAIN table}} :
        /\ keys \subseteq Range(list)
        /\ \A e \in DOMAIN table : table[e].count = occ[table[e].key]
        /\ \A e, f \in DOMAIN table :
              e < f => \/ table[e].count > table[f].count
                       \/ /\ table[e].count = table[f].count
                          /\ seen[table[e].key] < seen[table[f].key]
        /\ Len(table) = IF Cardinality(Range(list)) < cap
                        THEN Cardinality(Range(list)) ELSE cap
        /\ \A x \in Range(list) \ keys : \A e \in DOMAIN table :
              \/ table[e].count > occ[x]
              \/ table[e].count = occ[x] /\ seen[table[e].key] < seen[x]

\* C15: in the result of a batch each frequency table maps an item to the
\* number of its occurrences in the flattened per-document lists, is ordered by
\* count, greatest first, with equal counts in the order of first encounter,
\* and keeps the first 50 skills, 30 responsibilities and 30 qualifications of
\* that ordering.
C15_FrequencyTables ==
    (pc = "returned" /\ ret.ok) =>
        /\ IsFrequencyTable(ret.value.common_skills, Flattened("skills"), 50)
        /\ IsFrequencyTable(ret.value.common_responsibilities,
                            Flattened("responsibilities"), 30)
        /\ IsFrequencyTable(ret.value.common_qualifications,
                            Flattened("qualifications"), 30)

\* Each table is cut at its cap and the skills have unequal counts.
C15_Witness ==
    /\ pc = "returned"
    /\ ret.ok
    /\ Cardinality(Range(Flattened("skills"))) > 50
    /\ Cardinality(Range(Flattened("responsibilities"))) > 30
    /\ Cardinality(Range(Flattened("qualifications"))) > 30
    /\ Len(ret.value.common_skills) = 50
    /\ ret.value.common_skills[1].count > ret.value.common_skills[50].count
    /\ Len(ret.value.common_responsibilities) = 30
    /\ Len(ret.value.common_qualifications) = 30

\* C16: the frequency ranking is deterministic: a run of
\* analyze_multiple_descriptions on the same batch in the same order, under
\* whatever hash seed its process has, produces the skill table of this run,
\* with the same entries in the same order, ties included.
C16_SkillRankingDeterministic ==
    (pc = "returned" /\ ret.ok) =>
        \A seed \in HashSeeds :
            \E again \in {analyze_multiple_descriptions(descriptions, config,
                                                        nlp, seed).outcome} :
                /\ again.ok
                /\ again.value.common_skills = ret.value.common_skills

RejectsAsTooSmall(descs, stored) ==
    \E done \in {analyze_multiple_descriptions(descs, stored, nlp, hash_seed).outcome} :
        ~done.ok /\ done.error.type = "InsufficientDataError"

\* C18: the configuration is read once, at construction: a change of the
\* configured minimum after the analyzer was constructed does not change
\* whether the analyzer rejects a batch as too small.
C18_MinimumReadAtConstruction ==
    [][config' # config =>
          (RejectsAsTooSmall(descriptions, config')
              <=> RejectsAsTooSmall(descriptions, config))]_vars

\* The postings of the result whose insights hold a years value.
WithYears == {i \in DOMAIN ret.value.insights :
                 ret.value.insights[i].experience_years # NoneInt}

RECURSIVE SumYears(_)
SumYears(S) ==
    IF S = {} THEN 0
    ELSE LET i == CHOOSE j \in S : TRUE
         IN  ret.value.insights[i].experience_years + SumYears(S \ {i})

\* C19: average_years_required is the mean of experience_years over exactly the
\* postings that have a years value, a value of 0 included, and the key is
\* left out of common_requirements exactly when no posting has a years value.
C19_AverageYearsOverPresent ==
    (pc = "returned" /\ ret.ok) =>
        LET common == ret.value.market_comparison.common_requirements
        IN  IF WithYears = {}
            THEN "average_years_required" \notin DOMAIN common
            ELSE /\ "average_years_required" \in DOMAIN common
                 /\ common.average_years_required.num * Cardinality(WithYears)
                        = SumYears(WithYears) * common.average_years_required.den

(***************************************************************************)
(* Properties of the order of a batch.                                      *)
(***************************************************************************)
BatchPermutations(n) ==
    {p \in [1..n -> 1..n] : \A i, j \in 1..n : p[i] = p[j] => i = j}

Permuted(descs, p) == [i \in DOMAIN descs |-> descs[p[i]]]

\* The results of the calls of this analyzer on the permutations of the batch.
PermutedResults ==
    {analyze_multiple_descriptions(Permuted(descriptions, p), config, nlp,
                                   hash_seed).outcome :
        p \in BatchPermutations(Len(descriptions))}

\* What every permutation keeps: the total, the salary summary and the two
\* histograms.
SameSummaries(a, b) ==
    /\ a.total_analyzed = b.total_analyzed
    /\ a.salary_insights = b.salary_insights
    /\ Range(a.market_comparison.experience_levels)
           = Range(b.market_comparison.experience_levels)
    /\ Range(a.market_comparison.remote_policies)
           = Range(b.market_comparison.remote_policies)

\* The entries of one table that are not entries of the other are entries of a
\* table cut at its cap, with the smallest count the table keeps, for items
\* the other table does not hold.
DiffersAtCutOnly(one, other, cap) ==
    \A e \in Range(one) \ Range(other) :
        /\ Len(one) = cap
        /\ e.count = one[Len(one)].count
        /\ \A f \in Range(other) : f.key # e.key

SameTableUpToCut(one, other, cap) ==
    /\ [k \in DOMAIN one |-> one[k].count] = [k \in DOMAIN other |-> other[k].count]
    /\ DiffersAtCutOnly(one, other, cap)
    /\ DiffersAtCutOnly(other, one, cap)

\* C20 as stated: aggregation is order-independent: every permutation of the
\* batch gives the same total, the same item-to-count entries in each
\* frequency table, the same salary summary and the same experience-level and
\* remote-policy histograms.
C20_OrderIndependent ==
    (pc = "returned" /\ ret.ok) =>
        \A other \in PermutedResults :
            /\ other.ok
            /\ SameSummaries(other.value, ret.value)
            /\ Range(other.value.common_skills) = Range(ret.value.common_skills)
            /\ Range(other.value.common_responsibilities)
                   = Range(ret.value.common_responsibilities)
            /\ Range(other.value.common_qualifications)
                   = Range(ret.value.common_qualifications)

\* C20, amended: every permutation of the batch gives the same total, the same
\* salary summary, the same histograms and, in each frequency table, the same
\* counts in the same places and the same item-to-count entries except for
\* items tied at the smallest count of a table cut at its cap (50, 30, 30).
C20_OrderIndependentUpToCut ==
    (pc = "returned" /\ ret.ok) =>
        \A other \in PermutedResults :
            /\ other.ok
            /\ SameSummaries(other.value, ret.value)
            /\ SameTableUpToCut(other.value.common_skills,
                                ret.value.common_skills, 50)
            /\ SameTableUpToCut(other.value.common_responsibilities,
                                ret.value.common_responsibilities, 30)
            /\ SameTableUpToCut(other.value.common_qualifications,
                                ret.value.common_qualifications, 30)

\* A batch of different postings with a salary summary, one of whose
\* permutations keeps other skills at the cut.
C20_Witness ==
    /\ pc = "returned"
    /\ ret.ok
    /\ Len(descriptions) >= 2
    /\ ret.value.salary_insights # NoneDict
    /\ \E other \in PermutedResults :
          /\ other.value.insights # ret.value.insights
          /\ Range(other.value.common_skills) # Range(ret.value.common_skills)

(***************************************************************************)
(* Properties of the lists of a posting.                                    *)
(***************************************************************************)
\* The lines of a text, each stripped, as the two extractions scan them.
StrippedLines(s) ==
    {strip(SplitLines(s, 1)[i]) : i \in 1..Len(SplitLines(s, 1))}

\* item is what line leaves once its marker (one bullet character, or digits
\* and a dot) and the whitespace after it are removed, cut at 200 characters.
IsUnmarked(item, line) ==
    \E k \in 1..Len(line) : \E w \in (k + 1)..Len(line) :
        /\ \/ k = 1 /\ Head(line) \in {"-", Bullet, "*"}
           \/ k > 1 /\ Char(line, k) = "." /\ \A j \in 1..(k - 1) : IsDigit(Char(line, j))
        /\ \A j \in (k + 1)..w : IsSpace(Char(line, j))
        /\ w < Len(line) /\ ~IsSpace(Char(line, w + 1))
        /\ item = SubSeq(line, w + 1, IF Len(line) - w > 200 THEN w + 200 ELSE Len(line))

\* C21: the responsibilities and the qualifications of a posting are at most
\* 20 items each and its nice-to-have list at most 10; every item is at most
\* 200 characters long and is a line of the text with its bullet or number
\* marker stripped.
C21_ListBounds ==
    pc = "returned" =>
        \E lines \in {StrippedLines(text)} :
            /\ Len(ret.responsibilities) <= 20
            /\ Len(ret.qualifications) <= 20
            /\ Len(ret.nice_to_have) <= 10
            /\ \A items \in {ret.responsibilities, ret.qualifications, ret.nice_to_have} :
                 \A n \in DOMAIN items :
                    /\ Len(items[n]) <= 200
                    /\ \E line \in lines : IsUnmarked(items[n], line)

\* A text with more bulleted lines than any list keeps, one of them longer
\* than an item may be: the three lists are full and the long item is cut.
C21_Witness ==
    /\ pc = "returned"
    /\ Cardinality({l \in StrippedLines(text) : IsBulletLine(l)}) > 20
    /\ Len(ret.responsibilities) = 20
    /\ Len(ret.qualifications) = 20
    /\ Len(ret.nice_to_have) = 10
    /\ Len(ret.responsibilities[1]) = 200
    /\ \E l \in StrippedLines(text) : Len(l) > 202

\* The lines of a text in order, each stripped.
LineSeq(s) == [i \in 1..Len(SplitLines(s, 1)) |-> strip(SplitLines(s, 1)[i])]

\* A bulleted or numbered line.
IsItemLine(line) == IsBulletLine(line) \/ IsNumberedLine(line)

\* The capture window of a list is open at line i: a heading with one of the
\* keywords came before it, and no two consecutive lines between that heading
\* and line i are both neither bulleted nor numbered.
WindowOpen(lines, keywords, i) ==
    \E h \in 1..(i - 1) :
        /\ HasKeyword(lines[h], keywords)
        /\ \A j \in (h + 1)..(i - 2) : IsItemLine(lines[j]) \/ IsItemLine(lines[j + 1])

\* The items of the lines from i on that the window rule captures: the
\* bulleted and numbered lines inside the window that are longer than
\* min_len once the marker is stripped.
RECURSIVE RuleItems(_, _, _, _)
RuleItems(lines, keywords, min_len, i) ==
    IF i > Len(lines) THEN <<>>
    ELSE (IF /\ ~HasKeyword(lines[i], keywords)
             /\ IsItemLine(lines[i])
             /\ WindowOpen(lines, keywords, i)
             /\ Len(StripMarker(lines[i])) > min_len
          THEN <<Take(StripMarker(lines[i]), 200)>>
          ELSE <<>>)
         \o RuleItems(lines, keywords, min_len, i + 1)

\* Every item of the list comes from a line at which the window is open.
CapturedInWindow(items, lines, keywords) ==
    \A n \in DOMAIN items :
        \E i \in DOMAIN lines :
            IsUnmarked(items[n], lines[i]) /\ WindowOpen(lines, keywords, i)

\* C23: a bulleted or numbered line is captured as a responsibility or as a
\* qualification only while the capture window of that list is open: after a
\* heading with one of its keywords and before the window closed.
C23_CapturedOnlyInWindow ==
    pc = "returned" =>
        \E lines \in {LineSeq(text)} :
            /\ CapturedInWindow(ret.responsibilities, lines, ResponsibilityKeywords)
            /\ CapturedInWindow(ret.qualifications, lines, QualificationKeywords)

\* No line of the text is a numbered line.
NoNumberedLine(lines) == \A i \in DOMAIN lines : ~IsNumberedLine(lines[i])

\* C24: the window of the responsibilities and of the qualifications closes
\* when two consecutive non-bulleted lines are seen, blank or not, and a
\* single non-bulleted line before a bulleted one does not close it: on a
\* text of headings, bulleted lines, blank lines and text lines the lists are
\* the bulleted lines of the window.
C24_WindowClosesAfterTwoLines ==
    pc = "returned" =>
        \E lines \in {LineSeq(text)} :
            NoNumberedLine(lines) =>
                /\ ret.responsibilities
                     = Take(RuleItems(lines, ResponsibilityKeywords, 20, 1), 20)
                /\ ret.qualifications
                     = Take(RuleItems(lines, QualificationKeywords, 20, 1), 20)

\* C25: the nice-to-have list follows the same window rule: its window closes
\* when two consecutive non-bulleted lines are seen, and the bulleted lines
\* inside it are captured when longer than 10 characters without the marker.
C25_NiceWindowCloses ==
    pc = "returned" =>
        \E lines \in {LineSeq(text)} :
            NoNumberedLine(lines) =>
                ret.nice_to_have = Take(RuleItems(lines, NiceKeywords, 10, 1), 10)

(***************************************************************************)
(* Properties of the years of experience.                                   *)
(***************************************************************************)
\* The positions of a text at which a mention of years starts, in either
\* form: 'N[+] years' or 'N to M years'.
YearsMentions(s) ==
    UNION {{i \in 1..Len(s) : RangeYearsAt(sl, i) \/ PlainYearsAt(sl, i)} : sl \in {lower(s)}}

\* C26: the years of experience are the first number of the mention that
\* occurs earliest in the text, whichever of the two forms it has, and none
\* exactly when the text has no mention.
C26_EarliestMentionWins ==
    pc = "returned" =>
        \E mentions \in {YearsMentions(text)} :
            ret.years = IF mentions = {} THEN NoneInt
                        ELSE int(YearsGroup1(text, mentions))

(***************************************************************************)
(* Properties of the order of the salary figures.                           *)
(***************************************************************************)
\* The salary insights of a batch whose only posting has the salary s, as
\* analyze_multiple_descriptions builds them: none unless s has a minimum
\* other than zero.
SalaryInsightsOf(s) ==
    IF "min" \in DOMAIN s /\ s.min # 0 THEN _aggregate_salary_data(<<s>>) ELSE EmptyDict

\* C30: when the salary of a posting has numeric fields, min <= average <=
\* max; when an aggregate has salary insights, market_min <= average_min and
\* market_min <= market_max.
C30_SalaryOrdered ==
    pc = "returned" =>
        /\ "min" \in DOMAIN ret.salary =>
              ret.salary.min <= ret.salary.average /\ ret.salary.average <= ret.salary.max
        /\ \E agg \in {SalaryInsightsOf(ret.salary)} :
              agg # EmptyDict =>
                  agg.market_min <= agg.average_min /\ agg.market_min <= agg.market_max

(***************************************************************************)
(* Properties of the web service and of its background task.               *)
(***************************************************************************)
\* C22: POST /api/v1/analyze answers a request of fewer than 3 job
\* descriptions with a client error (400 or 422) without calling the
\* analyzer, and a request of 3 valid job descriptions with 200 and a
\* total_analyzed equal to the number of descriptions sent.
C22_AnalyzeEndpoint ==
    response.endpoint = "analyze" =>
        /\ Len(response.sent) < 3 =>
              response.status_code \in {400, 422} /\ ~response.analyzer_called
        /\ (Len(response.sent) = 3 /\ BodyIsValid(response.sent)) =>
              /\ response.status_code = 200
              /\ response.total_analyzed = Len(response.sent)

\* C27: the background task never ends with an unhandled exception: once it
\* is over its job is recorded as completed or failed, or is absent.
C27_TaskNeverFailsUnhandled ==
    \A request_id \in DOMAIN tasks :
        /\ tasks[request_id].pc # "unhandled"
        /\ tasks[request_id].pc = "finished" =>
              \/ request_id \notin DOMAIN job_storage
              \/ job_storage[request_id].status \in {"completed", "failed"}

\* The rank of a status on the way processing -> analyzing -> completed or failed.
StatusRank(status) ==
    IF status = "processing" THEN 0 ELSE IF status = "analyzing" THEN 1 ELSE 2

\* One step of a stored job: the status moves forward or stays, a completed
\* or failed job does not change, and the progress does not decrease.
JobMovesForward(before, after) ==
    /\ StatusRank(before.status) <= StatusRank(after.status)
    /\ before.status \in {"completed", "failed"} => after = before
    /\ before.progress <= after.progress

\* C28: the status of a stored job only moves forward from processing over
\* analyzing to completed or failed, completed and failed are terminal
\* (status, result and error never change afterwards), the progress never
\* decreases, and the progress is 100 exactly when the status is completed.
C28_StatusMovesForward ==
    /\ [](\A request_id \in DOMAIN job_storage :
            /\ job_storage[request_id].status
                  \in {"processing", "analyzing", "completed", "failed"}
            /\ job_storage[request_id].progress = 100
                  <=> job_storage[request_id].status = "completed")
    /\ [][\A request_id \in DOMAIN job_storage \cap DOMAIN job_storage' :
             JobMovesForward(job_storage[request_id], job_storage'[request_id])]_vars

\* A job is completed with its result, after the task went through every await.
C28_Witness ==
    \E request_id \in DOMAIN job_storage :
        /\ job_storage[request_id].status = "completed"
        /\ job_storage[request_id].progress = 100
        /\ job_storage[request_id].result # NoneDict
        /\ tasks[request_id].pc = "finished"

\* C29: every response of GET /api/v1/stats accounts for every stored job:
\* total_jobs = active_jobs + completed_jobs + failed_jobs.
C29_StatsAccountForEveryJob ==
    response.endpoint = "stats" =>
        response.total_jobs
            = response.active_jobs + response.completed_jobs + response.failed_jobs

====
